---- MODULE Spec2Model ----
(***************************************************************************)
(* Verification model of the sandline backend: the route handlers          *)
(* (routes/route_handlers.rs), the collaborative editing handlers          *)
(* (routes/editing.rs), the geometry pipeline (geometry/routing.rs,        *)
(* geometry/simplification.rs) and the row-level-security transaction      *)
(* they run in (db/rls_transaction.rs).                                    *)
(*                                                                         *)
(* The store is modelled as four tables.  Every handler is one action: it  *)
(* runs its statements on a transaction-local copy of the tables and the   *)
(* copy replaces the tables only when the handler reaches commit; an early *)
(* return (the `?` operator) drops the transaction.  A store failure can   *)
(* be injected at every statement of a handler.                            *)
(***************************************************************************)
EXTENDS Integers, Sequences, FiniteSets, TLC

\* ------------------------------------------------------------------------
\* Bounds of the model
\* ------------------------------------------------------------------------
MaxRoutes == 1
MaxVersions == 3
MaxChanges == 1
MaxTime == 5
MaxProposals == 1
MaxEditedRoutes == 2

\* ------------------------------------------------------------------------
\* HTTP status codes returned by the handlers
\* ------------------------------------------------------------------------
OK == 200
BAD_REQUEST == 400
FORBIDDEN == 403
NOT_FOUND == 404
INTERNAL_SERVER_ERROR == 500
NO_CONTENT == 204
NO_RESPONSE == 0

\* ------------------------------------------------------------------------
\* Identities (AuthUser.id) and their display e-mail
\* ------------------------------------------------------------------------
Users == {"alice", "bob"}
NoUser == "null"
EmailOf(u) == u
\* Those who take part in editing sessions: a caller and two others.
Editors == Users \cup {"carol"}

\* ------------------------------------------------------------------------
\* JSON values (serde_json::Value).  Every value is a tagged record so that
\* values of different JSON shapes can be compared.
\*   JArr(s)       the array of numbers s                 [x, y]
\*   JLngLat(x,y)  the object {"lng": x, "lat": y}
\*   JCoords(s)    the object {"coordinates": s}
\*   JNull         null
\* ------------------------------------------------------------------------
JArr(s) == [t |-> "arr", v |-> s]
JLngLat(x, y) == [t |-> "lnglat", v |-> <<x, y>>]
JCoords(s) == [t |-> "coords", v |-> s]
JNull == [t |-> "null", v |-> <<>>]
JNum(x) == [t |-> "num", v |-> <<x>>]

\* A JSON array of values / JSON null, for the control_points column.
JArray(items) == [kind |-> "array", items |-> items]
JNullArray == [kind |-> "null", items |-> <<>>]

\* Value::get(i) on an array with a Rust (0-based, i32 as usize) index:
\* a negative i32 becomes a huge usize and addresses nothing.
HasIndex(s, i) == i >= 0 /\ i + 1 <= Len(s)
AtIndex(s, i) == s[i + 1]

\* A GeoJSON geometry.  hasCoords = FALSE models a geometry whose
\* "coordinates" member is missing or not an array.
Geometry(type, lines) == [type |-> type, hasCoords |-> TRUE, coordinates |-> lines]
NoGeometry == [type |-> "none", hasCoords |-> FALSE, coordinates |-> <<>>]

\* A member of "coordinates" that is not an array (a number, a string).
NotAnArray == <<[t |-> "scalar", v |-> <<>>]>>
IsArray(line) == line # NotAnArray

\* ------------------------------------------------------------------------
\* Geometry pipeline
\* ------------------------------------------------------------------------
\* filter_map(|p| { let arr = p.as_array()?; Some((arr[0].as_f64()?, arr[1].as_f64()?)) })
\* keeps the entries that are arrays; indexing arr[0], arr[1] of a shorter
\* array panics.
RECURSIVE ParsePoints(_)
ParsePoints(items) ==
    IF items = <<>> THEN <<>>
    ELSE IF Head(items).t = "arr"
         THEN <<<<Head(items).v[1], Head(items).v[2]>>>> \o ParsePoints(Tail(items))
         ELSE ParsePoints(Tail(items))

ParsePanics(items) ==
    \E i \in DOMAIN items : items[i].t = "arr" /\ Len(items[i].v) < 2

\* What surrounds one run of the pipeline:
\*   spatial  the spatial-index queries fail
\*   near     the points within the threshold of a curated track
\*   track    the stored confidence (1..5) of the nearest track, 0 when the
\*            snapping query returns no row
\*   snap     how far ST_ClosestPoint moves a point onto the track
\*   service  what the road-routing service does
Environment(spatial, near, track, snap, service) ==
    [spatial |-> spatial, near |-> near, track |-> track, snap |-> snap, service |-> service]

\* MAPBOX_ACCESS_TOKEN unset and no curated track anywhere.
Unconfigured(spatialFails) == Environment(spatialFails, {}, 0, 0, "unconfigured")

\* Off-road as soon as one end is near a track.
OffRoadEitherEnd(env, start, end) == start \in env.near \/ end \in env.near

\* start_near_track && end_near_track
OffRoad(env, start, end) == start \in env.near /\ end \in env.near

\* vec![vec![start.0, start.1], vec![end.0, end.1]]
Straight(start, end) == <<start, end>>
Snapped(env, p) == <<p[1], p[2] + env.snap>>

\* The result of routing one segment; confidence is counted in tenths.
Routed(points, confidence) == [ok |-> TRUE, points |-> points, confidence |-> confidence]
Propagated == [ok |-> FALSE, points |-> <<>>, confidence |-> 0]

\* route_via_curated_tracks: the straight line between the snapped points
\* with confidence track.confidence / 5.0, or the direct line with 0.3.
route_via_curated_tracks(start, end, env) ==
    IF env.track > 0
    THEN Routed(<<Snapped(env, start), Snapped(env, end)>>, 2 * env.track)
    ELSE Routed(Straight(start, end), 3)

\* route_via_mapbox: the direct line with 0.5 when the token is empty, the
\* status is not a success or the answer holds no route; the ? on
\* send().await and on response.json().await propagates the error; a route
\* found gives its coordinates with 0.9.
route_via_mapbox(start, end, env) ==
    IF env.service \in {"unconfigured", "error_status", "no_route"}
    THEN Routed(Straight(start, end), 5)
    ELSE IF env.service \in {"unreachable", "unparsable"} THEN Propagated
    ELSE Routed(<<start, <<start[1], end[2]>>, end>>, 9)

\* One segment: off-road when both ends are near a track, else on-road.
RouteSegment(start, end, env) ==
    IF OffRoad(env, start, end)
    THEN route_via_curated_tracks(start, end, env)
    ELSE route_via_mapbox(start, end, env)

\* A failing spatial-index query treated as "not near a track".
SegmentDegrades(start, end, env) == ~ route_via_mapbox(start, end, env).ok

\* The ? on is_near_curated_track, route_via_curated_tracks and route_via_mapbox.
SegmentFails(start, end, env) == env.spatial \/ ~ RouteSegment(start, end, env).ok

\* into_iter().skip(1)
Skip1(points) == IF points = <<>> THEN points ELSE Tail(points)

\* The inner loop of route_geometry over one line: every point is pushed,
\* and for every point but the last the segment to the next point is
\* appended without its leading point.
RECURSIVE RouteLine(_, _, _)
RouteLine(points, i, env) ==
    IF i > Len(points) THEN <<>>
    ELSE <<points[i]>>
         \o (IF i < Len(points)
             THEN Skip1(RouteSegment(points[i], points[i + 1], env).points)
             ELSE <<>>)
         \o RouteLine(points, i + 1, env)

LineFails(points, env) ==
    \E i \in 1..(Len(points) - 1) : SegmentFails(points[i], points[i + 1], env)

\* total_confidence += confidence, over the segments of one line
RECURSIVE LineConfidence(_, _, _)
LineConfidence(points, i, env) ==
    IF i >= Len(points) THEN 0
    ELSE RouteSegment(points[i], points[i + 1], env).confidence
         + LineConfidence(points, i + 1, env)

\* How the loop over the lines ends: the first line that is not an array or
\* has a failing segment returns the error, the first line with an array
\* entry of fewer than two elements panics.
RECURSIVE RouteStatus(_, _)
RouteStatus(lines, env) ==
    IF lines = <<>> THEN "ok"
    ELSE IF ~ IsArray(Head(lines)) THEN "err"
    ELSE IF ParsePanics(Head(lines)) THEN "panic"
    ELSE IF LineFails(ParsePoints(Head(lines)), env) THEN "err"
    ELSE RouteStatus(Tail(lines), env)

\* if points.is_empty() { continue; }
RECURSIVE RouteLines(_, _)
RouteLines(lines, env) ==
    IF lines = <<>> THEN <<>>
    ELSE (IF ParsePoints(Head(lines)) = <<>> THEN <<>>
          ELSE <<RouteLine(ParsePoints(Head(lines)), 1, env)>>)
         \o RouteLines(Tail(lines), env)

RECURSIVE SegmentCount(_)
SegmentCount(lines) ==
    IF lines = <<>> THEN 0
    ELSE LET n == Len(ParsePoints(Head(lines)))
         IN  (IF n > 0 THEN n - 1 ELSE 0) + SegmentCount(Tail(lines))

RECURSIVE TotalConfidence(_, _)
TotalConfidence(lines, env) ==
    IF lines = <<>> THEN 0
    ELSE LineConfidence(ParsePoints(Head(lines)), 1, env) + TotalConfidence(Tail(lines), env)

\* The sum of the confidences in place of their mean.
SumOfConfidences(total, segment_count) == <<total, 10>>

\* avg_confidence as a fraction <<num, den>>: total / segment_count, or 0.0.
AverageConfidence(total, segment_count) ==
    IF segment_count > 0 THEN <<total, 10 * segment_count>> ELSE <<0, 1>>

\* route_geometry: status "ok" with the routed lines and the confidence,
\* "err" for Err(..), "panic" for a panic.
RouteFailed(status) == [status |-> status, lines |-> <<>>, confidence |-> <<0, 1>>]
route_geometry(geometry, env) ==
    IF ~ geometry.hasCoords THEN RouteFailed("err")
    ELSE IF RouteStatus(geometry.coordinates, env) # "ok"
         THEN RouteFailed(RouteStatus(geometry.coordinates, env))
    ELSE [status |-> "ok",
          lines |-> RouteLines(geometry.coordinates, env),
          confidence |-> AverageConfidence(TotalConfidence(geometry.coordinates, env),
                                           SegmentCount(geometry.coordinates))]

\* Squared distance of p to the segment a-b as a fraction <<num, den>>, den > 0.
Dot(a, b, p) == (p[1] - a[1]) * (b[1] - a[1]) + (p[2] - a[2]) * (b[2] - a[2])
Cross(a, b, p) == (b[1] - a[1]) * (p[2] - a[2]) - (b[2] - a[2]) * (p[1] - a[1])
Len2(a, b) == (b[1] - a[1]) * (b[1] - a[1]) + (b[2] - a[2]) * (b[2] - a[2])
SegDist2(a, b, p) ==
    IF Len2(a, b) = 0 \/ Dot(a, b, p) <= 0 THEN <<Len2(a, p), 1>>
    ELSE IF Dot(a, b, p) >= Len2(a, b) THEN <<Len2(b, p), 1>>
    ELSE <<Cross(a, b, p) * Cross(a, b, p), Len2(a, b)>>
FracGreater(f, g) == f[1] * g[2] > g[1] * f[2]

\* The tolerance 0.0001 degrees, squared, as a fraction: 1 / 10^8.
EpsilonSquared == <<1, 100000000>>

\* Index of the interior point of pts farthest from the segment first-last
\* (the first one among equals).
FarthestIndex(pts) ==
    CHOOSE i \in 2..(Len(pts) - 1) :
        /\ \A j \in 2..(Len(pts) - 1) :
              ~ FracGreater(SegDist2(pts[1], pts[Len(pts)], pts[j]),
                            SegDist2(pts[1], pts[Len(pts)], pts[i]))
        /\ \A j \in 2..(i - 1) :
              FracGreater(SegDist2(pts[1], pts[Len(pts)], pts[i]),
                          SegDist2(pts[1], pts[Len(pts)], pts[j]))

\* A simplifier that treats the last point like an interior one.
SimplifyOpen(pts) == IF Len(pts) <= 2 THEN pts ELSE SubSeq(pts, 1, Len(pts) - 1)

\* Ramer-Douglas-Peucker (geo::Simplify).
RECURSIVE Simplify(_)
Simplify(pts) ==
    IF Len(pts) <= 2 THEN pts
    ELSE LET k == FarthestIndex(pts)
         IN  IF FracGreater(SegDist2(pts[1], pts[Len(pts)], pts[k]), EpsilonSquared)
             THEN Simplify(SubSeq(pts, 1, k)) \o Tail(Simplify(SubSeq(pts, k, Len(pts))))
             ELSE <<pts[1], pts[Len(pts)]>>

PointsToJson(pts) == [i \in DOMAIN pts |-> JArr(pts[i])]

\* A simplify_geometry without the test points.len() < 2.
RECURSIVE SimplifyEveryLine(_)
SimplifyEveryLine(lines) ==
    IF lines = <<>> THEN <<>>
    ELSE <<PointsToJson(Simplify(Head(lines)))>> \o SimplifyEveryLine(Tail(lines))

\* simplify_geometry: lines with fewer than two points are dropped.
RECURSIVE SimplifyLines(_)
SimplifyLines(lines) ==
    IF lines = <<>> THEN <<>>
    ELSE (IF Len(Head(lines)) < 2 THEN <<>> ELSE <<PointsToJson(Simplify(Head(lines)))>>)
         \o SimplifyLines(Tail(lines))

\* process_geometry: route, then simplify.  The result is the HTTP status
\* and the processed geometry; an error of route_geometry is mapped to
\* INTERNAL_SERVER_ERROR, and a panic unwinds the handler's task so that no
\* response is written.
Processed(routed) ==
    IF routed.status = "panic" THEN [code |-> NO_RESPONSE, geometry |-> NoGeometry]
    ELSE IF routed.status = "err" THEN [code |-> INTERNAL_SERVER_ERROR, geometry |-> NoGeometry]
    ELSE [code |-> OK, geometry |-> Geometry("MultiLineString", SimplifyLines(routed.lines))]

process_geometry(raw, env) == Processed(route_geometry(raw, env))

\* ------------------------------------------------------------------------
\* The store
\* ------------------------------------------------------------------------
VARIABLES
    routes,                  \* table routes: sequence of rows, id = position
    route_versions,          \* table route_versions, in insertion order
    route_point_changes,     \* table route_point_changes, id = position
    route_editing_sessions,  \* table route_editing_sessions: set of rows
    route_proposals,         \* table route_proposals, id = position
    sessions_created,        \* how many session ids the store has generated
    pipeline,                \* a run of the geometry pipeline on its own: its input and results
    pool,                    \* the connection pool and the requests drawing on it, step by step
    race,                    \* concurrent accepts, statement by statement, and their row locks
    now                      \* the store's clock: NOW() of the last transaction that wrote

vars == <<routes, route_versions, route_point_changes, route_editing_sessions,
          route_proposals, sessions_created, pipeline, pool, race, now>>

\* The committed tables as one value.
Db == [routes |-> routes,
       route_versions |-> route_versions,
       route_point_changes |-> route_point_changes,
       route_editing_sessions |-> route_editing_sessions,
       route_proposals |-> route_proposals,
       sessions_created |-> sessions_created]

\* The versions of a route, oldest first, and its latest version:
\* SELECT geometry FROM route_versions WHERE route_id = $1 ORDER BY created_at DESC LIMIT 1
VersionsOf(db, id) == SelectSeq(db.route_versions, LAMBDA v : v.route_id = id)
HasVersion(db, id) == VersionsOf(db, id) # <<>>
LatestVersion(db, id) ==
    LET vs == VersionsOf(db, id)
    IN  vs[CHOOSE i \in DOMAIN vs : \A j \in DOMAIN vs : vs[j].created_at <= vs[i].created_at]
RouteExists(db, id) == id \in DOMAIN db.routes
ChangeExists(db, id) == id \in DOMAIN db.route_point_changes

\* ------------------------------------------------------------------------
\* Row-level-security policies of the store, as the handlers' comments and
\* tests/rls_policies_test.rs state them.
\* ------------------------------------------------------------------------
\* "Owner create route versions":
\*   EXISTS (SELECT 1 FROM routes WHERE id = route_id AND owner_id = auth.uid())
OwnerCreateRouteVersions(db, auth, route_id) ==
    RouteExists(db, route_id) /\ db.routes[route_id].owner_id = auth

\* UPDATE routes affects only rows owned by auth.uid().
OwnerUpdateRoutes(db, auth, route_id) ==
    RouteExists(db, route_id) /\ db.routes[route_id].owner_id = auth

\* UPDATE route_proposals affects only proposals of routes owned by auth.uid().
OwnersUpdateProposals(db, auth, proposal_id) ==
    /\ proposal_id \in DOMAIN db.route_proposals
    /\ OwnerUpdateRoutes(db, auth, db.route_proposals[proposal_id].route_id)

\* Sessions of a route are visible to its owner and to those who joined it.
UsersSeeSessions(db, auth, route_id) ==
    \/ OwnerUpdateRoutes(db, auth, route_id)
    \/ \E r \in db.route_editing_sessions : r.route_id = route_id /\ r.user_id = auth

\* "Users read point changes": own changes or changes of owned routes.
UsersReadPointChanges(db, auth, change_id) ==
    /\ ChangeExists(db, change_id)
    /\ \/ db.route_point_changes[change_id].user_id = auth
       \/ OwnerUpdateRoutes(db, auth, db.route_point_changes[change_id].route_id)

\* "Owners update point changes": only the owner of the parent route.
OwnersUpdatePointChanges(db, auth, change_id) ==
    /\ ChangeExists(db, change_id)
    /\ OwnerUpdateRoutes(db, auth, db.route_point_changes[change_id].route_id)

\* ------------------------------------------------------------------------
\* Transactions (RlsTransaction).  A transaction is the tables it sees and
\* the status with which the handler left early (0 while it is running).
\* ------------------------------------------------------------------------
Begin(db, fail) ==
    [db |-> db, err |-> IF fail = "begin" THEN INTERNAL_SERVER_ERROR ELSE 0]
Abort(tx, code) == [tx EXCEPT !.err = code]
Running(tx) == tx.err = 0

\* A handler whose statements ran outside the transaction: nothing to undo.
RollbackKeepsWrites(db, tx) == tx.db

\* Dropping a transaction without commit rolls it back.
Rollback(db, tx) == db

\* A commit issued before the handler's early return is looked at.
CommitOnError(db, tx, fail) ==
    IF fail = "commit" THEN [db |-> db, code |-> INTERNAL_SERVER_ERROR]
    ELSE [db |-> tx.db, code |-> IF Running(tx) THEN OK ELSE tx.err]

\* tx.commit() at the end of a handler.
Commit(db, tx, fail) ==
    IF ~ Running(tx) THEN [db |-> Rollback(db, tx), code |-> tx.err]
    ELSE IF fail = "commit" THEN [db |-> Rollback(db, tx), code |-> INTERNAL_SERVER_ERROR]
    ELSE [db |-> tx.db, code |-> OK]

\* A statement that fails with a store error when the failure is injected
\* at it, and otherwise continues with next.
Stmt(tx, fail, name, next) ==
    IF ~ Running(tx) THEN tx
    ELSE IF fail = name THEN Abort(tx, INTERNAL_SERVER_ERROR)
    ELSE next

\* A map_err that does not look at the database error's message.
PermissionDeniedAsServerError == INTERNAL_SERVER_ERROR

\* map_err of an INSERT INTO route_versions that the policy refused.
PermissionDenied == FORBIDDEN

\* An UPDATE of the route's latest version in place of the INSERT.
InsertRouteVersionInPlace(tx, auth, route_id, geometry, created_by, t) ==
    LET row == [route_id |-> route_id, geometry |-> geometry,
                created_at |-> t, created_by |-> created_by]
        last == CHOOSE i \in DOMAIN tx.db.route_versions :
                    /\ tx.db.route_versions[i].route_id = route_id
                    /\ \A j \in DOMAIN tx.db.route_versions :
                          tx.db.route_versions[j].route_id = route_id => j <= i
    IN  IF ~ OwnerCreateRouteVersions(tx.db, auth, route_id) THEN Abort(tx, FORBIDDEN)
        ELSE IF HasVersion(tx.db, route_id)
             THEN [tx EXCEPT !.db.route_versions[last] = row]
        ELSE [tx EXCEPT !.db.route_versions = Append(@, row)]

\* INSERT INTO route_versions (route_id, geometry[, created_by]) at time t.
InsertRouteVersion(tx, auth, route_id, geometry, created_by, t) ==
    IF ~ OwnerCreateRouteVersions(tx.db, auth, route_id) THEN Abort(tx, PermissionDenied)
    ELSE [tx EXCEPT !.db.route_versions =
             Append(@, [route_id |-> route_id, geometry |-> geometry,
                        created_at |-> t, created_by |-> created_by])]

\* ------------------------------------------------------------------------
\* Requests and responses
\* ------------------------------------------------------------------------
NoBody == [geometry |-> NoGeometry, control_points |-> JNullArray]
Body(geometry, control_points) == [geometry |-> geometry, control_points |-> control_points]

\* What a handler returns: the tables after it, its status and its body.
\* begun says whether the handler got as far as RlsTransaction::begin.
Result(db, code, body) ==
    [db |-> db, code |-> code, body |-> IF code = OK THEN body ELSE NoBody, begun |-> TRUE]

\* A handler that opens its transaction first and processes inside it.
RefusedInTransaction(db, code) == Result(db, code, NoBody)

\* The ? on process_geometry(...).await, and an ok_or(BAD_REQUEST)? before
\* it: the handler returns the status before RlsTransaction::begin is called.
Refused(db, code) == [Result(db, code, NoBody) EXCEPT !.begun = FALSE]

\* ------------------------------------------------------------------------
\* routes/route_handlers.rs
\* ------------------------------------------------------------------------
\* Ok(Json(body)) after the commit, or the status the handler left with.
Reply(done, body) == Result(done.db, done.code, body)

RouteRow(owner, control_points, t) ==
    [name |-> "route", owner_id |-> owner, control_points |-> control_points,
     created_at |-> t, updated_at |-> t]

\* INSERT INTO routes (name, owner_id, control_points) ... RETURNING *
InsertRoute(tx, auth, payload, fail, t) ==
    Stmt(tx, fail, "insert_route",
         [tx EXCEPT !.db.routes = Append(@, RouteRow(auth, payload.control_points, t))])

\* INSERT INTO route_versions (route_id, geometry) for the route just inserted
InsertFirstVersion(tx, auth, geometry, fail, t) ==
    Stmt(tx, fail, "insert_version",
         InsertRouteVersion(tx, auth, Len(tx.db.routes), geometry, NoUser, t))

\* create_route with its two INSERTs sent to the pool, each committed alone.
CreateRouteAutocommit(db, auth, payload, pg, fail, t) ==
    LET tx1 == InsertRoute(Begin(db, fail), auth, payload, fail, t)
        tx2 == InsertFirstVersion(tx1, auth, pg.geometry, fail, t)
    IN  IF pg.code # OK THEN Refused(db, pg.code)
        ELSE IF ~ Running(tx1) THEN Result(db, tx1.err, NoBody)
        ELSE IF ~ Running(tx2) THEN Result(tx1.db, tx2.err, NoBody)
        ELSE Result(tx2.db, OK, Body(pg.geometry, payload.control_points))

\* create_route once the geometry is processed (pg): one transaction.
CreateRouteProcessed(db, auth, payload, pg, fail, t) ==
    IF pg.code # OK THEN Refused(db, pg.code)
    ELSE Reply(Commit(db,
                      InsertFirstVersion(InsertRoute(Begin(db, fail), auth, payload, fail, t),
                                         auth, pg.geometry, fail, t),
                      fail),
               Body(pg.geometry, payload.control_points))

create_route(db, auth, payload, fail, t) ==
    CreateRouteProcessed(db, auth, payload,
                         process_geometry(payload.geometry, Unconfigured(fail = "spatial")), fail, t)

\* INSERT INTO route_versions (route_id, geometry) VALUES ($1, $2)
InsertVersion(tx, auth, id, geometry, fail, t) ==
    Stmt(tx, fail, "insert_version", InsertRouteVersion(tx, auth, id, geometry, NoUser, t))

\* SELECT ... FROM routes WHERE id = $1, and NOT_FOUND without a row
FetchRoute(tx, id, fail) ==
    Stmt(tx, fail, "fetch_route", IF RouteExists(tx.db, id) THEN tx ELSE Abort(tx, NOT_FOUND))

\* update_route once the geometry is processed (pg).
UpdateRouteProcessed(db, auth, id, pg, fail, t) ==
    IF pg.code # OK THEN Refused(db, pg.code)
    ELSE Reply(Commit(db,
                      FetchRoute(InsertVersion(Begin(db, fail), auth, id, pg.geometry, fail, t),
                                 id, fail),
                      fail),
               Body(pg.geometry,
                    IF RouteExists(db, id) THEN db.routes[id].control_points ELSE JNullArray))

update_route(db, auth, id, payload, fail, t) ==
    UpdateRouteProcessed(db, auth, id,
                         process_geometry(payload.geometry, Unconfigured(fail = "spatial")), fail, t)

\* A control point in either wire form as a coordinate array:
\* {"coordinates": c} gives c, {"lng": x, "lat": y} gives [x, y].
IsControlPoint(p) == p.t \in {"coords", "lnglat"}
ControlPointPosition(p) == JArr(p.v)

\* The position at point_index of a control_points value, when there is one.
HasPositionAt(control_points, point_index) ==
    /\ control_points.kind = "array"
    /\ HasIndex(control_points.items, point_index)
    /\ IsControlPoint(AtIndex(control_points.items, point_index))
PositionAt(control_points, point_index) ==
    ControlPointPosition(AtIndex(control_points.items, point_index))

\* The submitted control points parse: an array of points in a wire form.
WellFormed(control_points) ==
    /\ control_points.kind = "array"
    /\ \A i \in DOMAIN control_points.items : IsControlPoint(control_points.items[i])

\* The raw geometry built from the control points: one line through them.
ControlPointsGeometry(control_points) ==
    Geometry("MultiLineString",
             << [i \in DOMAIN control_points.items |->
                    ControlPointPosition(control_points.items[i])] >>)

\* An UPDATE that also renames the route.
UpdateControlPointsAndName(tx, auth, id, control_points) ==
    IF OwnerUpdateRoutes(tx.db, auth, id)
    THEN [tx EXCEPT !.db.routes[id].control_points = control_points,
                    !.db.routes[id].name = "renamed"]
    ELSE tx

\* UPDATE routes SET control_points = $1 WHERE id = $2
UpdateControlPoints(tx, auth, id, control_points) ==
    IF OwnerUpdateRoutes(tx.db, auth, id)
    THEN [tx EXCEPT !.db.routes[id].control_points = control_points]
    ELSE tx

SaveControlPoints(tx, auth, id, control_points, fail) ==
    Stmt(tx, fail, "update_cp", UpdateControlPoints(tx, auth, id, control_points))

\* The owner's branch: overwrite the control points, append the version.
OwnerBranch(db, tx, auth, id, payload, geometry, fail, t) ==
    Reply(Commit(db,
                 InsertVersion(SaveControlPoints(tx, auth, id, payload.control_points, fail),
                               auth, id, geometry, fail, t),
                 fail),
          Body(geometry, payload.control_points))

\* original_position and new_position: BAD_REQUEST unless the route's and
\* the submitted control points both hold a point at point_index.
ExtractPositions(tx, existing, payload) ==
    IF /\ HasPositionAt(existing.control_points, payload.point_index)
       /\ HasPositionAt(payload.control_points, payload.point_index)
    THEN tx ELSE Abort(tx, BAD_REQUEST)

\* A response that echoes the submitted control points, as the owner's does.
ProposalRecordedEchoesPayload(existing_geometry, existing_route, payload) ==
    Body(existing_geometry, payload.control_points)

\* The body of the non-owner's response: the route as it is.
ProposalRecorded(existing_geometry, existing_route, payload) ==
    Body(existing_geometry, existing_route.control_points)

PointChangeRow(route_id, auth, email, feature_index, point_index, original, new, t) ==
    [route_id |-> route_id, user_id |-> auth, user_email |-> email,
     feature_index |-> feature_index, point_index |-> point_index,
     original_position |-> original, new_position |-> new,
     status |-> "pending", created_at |-> t, resolved_at |-> 0, resolved_by |-> NoUser]

\* An INSERT with the two positions in each other's place.
InsertProposalSwapped(tx, auth, id, existing, payload, fail, t) ==
    Stmt(tx, fail, "insert_change",
         [tx EXCEPT !.db.route_point_changes =
             Append(@, PointChangeRow(id, auth, EmailOf(auth),
                                      payload.feature_index, payload.point_index,
                                      PositionAt(payload.control_points, payload.point_index),
                                      PositionAt(existing.control_points, payload.point_index),
                                      t))])

\* INSERT INTO route_point_changes (...) VALUES (..., 'pending')
InsertProposal(tx, auth, id, existing, payload, fail, t) ==
    Stmt(tx, fail, "insert_change",
         [tx EXCEPT !.db.route_point_changes =
             Append(@, PointChangeRow(id, auth, EmailOf(auth),
                                      payload.feature_index, payload.point_index,
                                      PositionAt(existing.control_points, payload.point_index),
                                      PositionAt(payload.control_points, payload.point_index),
                                      t))])

\* After the commit the latest geometry is read from the pool.
ProposalCommitted(done, id, existing, payload, fail) ==
    IF done.code # OK THEN Result(done.db, done.code, NoBody)
    ELSE IF fail = "fetch_geometry" THEN Result(done.db, INTERNAL_SERVER_ERROR, NoBody)
    ELSE IF ~ HasVersion(done.db, id) THEN Result(done.db, NOT_FOUND, NoBody)
    ELSE Result(done.db, OK,
                ProposalRecorded(LatestVersion(done.db, id).geometry, existing, payload))

\* The non-owner's branch: record the change as a pending proposal.
ProposalBranch(db, tx, auth, id, payload, fail, t) ==
    ProposalCommitted(Commit(db,
                             InsertProposal(ExtractPositions(tx, db.routes[id], payload),
                                            auth, id, db.routes[id], payload, fail, t),
                             fail),
                      id, db.routes[id], payload, fail)

\* update_route_control_points once the route is fetched on tx.
ControlPointsFetched(db, tx, auth, id, payload, geometry, fail, t) ==
    IF ~ Running(tx) THEN Result(db, tx.err, NoBody)
    ELSE IF auth = db.routes[id].owner_id
         THEN OwnerBranch(db, tx, auth, id, payload, geometry, fail, t)
         ELSE ProposalBranch(db, tx, auth, id, payload, fail, t)

\* update_route_control_points once the geometry is processed (pg).
ControlPointsProcessed(db, auth, id, payload, pg, fail, t) ==
    IF pg.code # OK THEN Refused(db, pg.code)
    ELSE ControlPointsFetched(db, FetchRoute(Begin(db, fail), id, fail),
                              auth, id, payload, pg.geometry, fail, t)

update_route_control_points(db, auth, id, payload, fail, t) ==
    IF ~ WellFormed(payload.control_points) THEN Refused(db, BAD_REQUEST)
    ELSE ControlPointsProcessed(db, auth, id, payload,
                                process_geometry(ControlPointsGeometry(payload.control_points),
                                                 Unconfigured(fail = "spatial")),
                                fail, t)

\* ------------------------------------------------------------------------
\* routes/editing.rs
\* ------------------------------------------------------------------------
SessionOf(db, route_id, auth) ==
    {r \in db.route_editing_sessions : r.route_id = route_id /\ r.user_id = auth}

\* An upsert that replaces the row in conflict by a new one.
UpsertSessionAnew(sessions, route_id, auth, email, id, t) ==
    {r \in sessions : ~ (r.route_id = route_id /\ r.user_id = auth)}
        \cup {[id |-> id, route_id |-> route_id, user_id |-> auth,
                user_email |-> email, started_at |-> t, last_heartbeat |-> t]}

\* INSERT ... ON CONFLICT (route_id, user_id) DO UPDATE SET last_heartbeat = NOW()
\* A new row gets the next generated id; a row in conflict keeps everything
\* but last_heartbeat.
UpsertSession(sessions, route_id, auth, email, id, t) ==
    IF \E r \in sessions : r.route_id = route_id /\ r.user_id = auth
    THEN {IF r.route_id = route_id /\ r.user_id = auth
          THEN [r EXCEPT !.last_heartbeat = t] ELSE r : r \in sessions}
    ELSE sessions \cup {[id |-> id, route_id |-> route_id, user_id |-> auth,
                         user_email |-> email, started_at |-> t, last_heartbeat |-> t]}

SaveSession(tx, auth, route_id, email, fail, t) ==
    Stmt(tx, fail, "upsert_session",
         [tx EXCEPT !.db.route_editing_sessions =
                        UpsertSession(@, route_id, auth, email, tx.db.sessions_created + 1, t),
                    !.db.sessions_created =
                        IF SessionOf(tx.db, route_id, auth) = {} THEN @ + 1 ELSE @])

\* SELECT ... FROM route_editing_sessions WHERE route_id = $1 (the active editors)
FetchSessions(tx, fail) == Stmt(tx, fail, "fetch_sessions", tx)

\* EditingSessionInfo of a session row.
SessionInfo(r) == [user_id |-> r.user_id, user_email |-> r.user_email, started_at |-> r.started_at]

\* ORDER BY started_at
RECURSIVE OrderByStartedAt(_)
OrderByStartedAt(rows) ==
    IF rows = {} THEN <<>>
    ELSE LET first == CHOOSE r \in rows : \A q \in rows : r.started_at <= q.started_at
         IN  <<first>> \o OrderByStartedAt(rows \ {first})

\* A SELECT ordered by a descending key in place of ORDER BY started_at.
ActiveSessionsNewestFirst(db, auth, route_id) ==
    LET asc == OrderByStartedAt({SessionInfo(r) : r \in
                   {q \in db.route_editing_sessions : q.route_id = route_id /\ q.user_id # auth}})
    IN  [i \in DOMAIN asc |-> asc[Len(asc) + 1 - i]]

\* SELECT user_id, user_email, user_avatar_url, started_at
\* FROM route_editing_sessions WHERE route_id = $1 AND user_id != $2 ORDER BY started_at
ActiveSessions(db, auth, route_id) ==
    OrderByStartedAt({SessionInfo(r) : r \in
        {q \in db.route_editing_sessions :
            /\ q.route_id = route_id
            /\ q.user_id # auth
            /\ UsersSeeSessions(db, auth, route_id)}})

\* EditingSessionResponse: the caller's session and the other editors.
SessionBody(session, active_sessions) ==
    [session_id |-> session.id, route_id |-> session.route_id, user_id |-> session.user_id,
     started_at |-> session.started_at, active_sessions |-> active_sessions]

\* The commit and the response of join, after its statements ran on tx.
JoinCommitted(db, tx, auth, route_id, fail) ==
    Reply(Commit(db, tx, fail),
          SessionBody(CHOOSE r \in SessionOf(tx.db, route_id, auth) : TRUE,
                      ActiveSessions(tx.db, auth, route_id)))

join_editing_session(db, auth, route_id, email, fail, t) ==
    JoinCommitted(db,
                  FetchSessions(SaveSession(Begin(db, fail), auth, route_id, email, fail, t), fail),
                  auth, route_id, fail)

\* A DELETE ... WHERE route_id = $1, without the user.
DeleteRouteSessions(tx, auth, route_id, fail) ==
    Stmt(tx, fail, "delete_session",
         [tx EXCEPT !.db.route_editing_sessions = {r \in @ : r.route_id # route_id}])

\* DELETE FROM route_editing_sessions WHERE route_id = $1 AND user_id = $2
DeleteSession(tx, auth, route_id, fail) ==
    Stmt(tx, fail, "delete_session",
         [tx EXCEPT !.db.route_editing_sessions = @ \ SessionOf(tx.db, route_id, auth)])

\* Ok(StatusCode::NO_CONTENT) after the commit.
Left(done) == Result(done.db, IF done.code = OK THEN NO_CONTENT ELSE done.code, NoBody)

leave_editing_session(db, auth, route_id, fail) ==
    Left(Commit(db, DeleteSession(Begin(db, fail), auth, route_id, fail), fail))

\* An UPDATE ... WHERE route_id = $1, without the user.
TouchRouteSessions(tx, auth, route_id, fail, t) ==
    Stmt(tx, fail, "update_heartbeat",
         [tx EXCEPT !.db.route_editing_sessions =
             {IF r.route_id = route_id THEN [r EXCEPT !.last_heartbeat = t] ELSE r : r \in @}])

\* UPDATE route_editing_sessions SET last_heartbeat = NOW()
\* WHERE route_id = $1 AND user_id = $2; no row is not an error.
TouchSession(tx, auth, route_id, fail, t) ==
    Stmt(tx, fail, "update_heartbeat",
         [tx EXCEPT !.db.route_editing_sessions =
             {IF r.route_id = route_id /\ r.user_id = auth
              THEN [r EXCEPT !.last_heartbeat = t] ELSE r : r \in @}])

heartbeat_editing_session(db, auth, route_id, fail, t) ==
    Reply(Commit(db, TouchSession(Begin(db, fail), auth, route_id, fail, t), fail), NoBody)

\* SELECT user_email FROM route_editing_sessions ..., FORBIDDEN without a row
FetchSession(tx, auth, route_id, fail) ==
    Stmt(tx, fail, "fetch_session",
         IF SessionOf(tx.db, route_id, auth) = {} THEN Abort(tx, FORBIDDEN) ELSE tx)

\* INSERT INTO route_point_changes (...) with the session's email
InsertChange(tx, auth, route_id, payload, fail, t) ==
    Stmt(tx, fail, "insert_change",
         [tx EXCEPT !.db.route_point_changes =
             Append(@, PointChangeRow(route_id, auth,
                                      (CHOOSE r \in SessionOf(tx.db, route_id, auth) : TRUE).user_email,
                                      payload.feature_index, payload.point_index,
                                      payload.original_position, payload.new_position, t))])

create_point_change(db, auth, route_id, payload, fail, t) ==
    Reply(Commit(db,
                 InsertChange(FetchSession(Begin(db, fail), auth, route_id, fail),
                              auth, route_id, payload, fail, t),
                 fail),
          NoBody)

\* geometry["coordinates"].get_mut(feature_index).and_then(|f| f.get_mut(point_index))
HasCoordinate(geometry, feature_index, point_index) ==
    /\ geometry.hasCoords
    /\ HasIndex(geometry.coordinates, feature_index)
    /\ HasIndex(AtIndex(geometry.coordinates, feature_index), point_index)

\* *coords = change.new_position.clone()
SetCoordinate(geometry, feature_index, point_index, position) ==
    [geometry EXCEPT !.coordinates =
        [i \in DOMAIN @ |->
            IF i # feature_index + 1 THEN @[i]
            ELSE [j \in DOMAIN @[i] |-> IF j = point_index + 1 THEN position ELSE @[i][j]]]]

\* An accept that moves every control point to the new position.
UpdateEveryControlPoint(control_points, point_index, new_position) ==
    IF /\ HasIndex(control_points.items, point_index)
       /\ new_position.t = "arr"
       /\ Len(new_position.v) = 2
    THEN [control_points EXCEPT !.items =
             [k \in DOMAIN @ |-> JLngLat(new_position.v[1], new_position.v[2])]]
    ELSE control_points

\* The control points after an accept: the entry at point_index becomes
\* {"lng": c[0], "lat": c[1]} when it exists and new_position is an array
\* c of two elements; otherwise the array is written back as it was read.
UpdateControlPoint(control_points, point_index, new_position) ==
    IF /\ HasIndex(control_points.items, point_index)
       /\ new_position.t = "arr"
       /\ Len(new_position.v) = 2
    THEN [control_points EXCEPT !.items[point_index + 1] =
             JLngLat(new_position.v[1], new_position.v[2])]
    ELSE control_points

\* An if-let in place of the ok_or_else: a locator that addresses nothing is
\* passed over.
InvalidIndexSkipped(tx) == tx

\* .ok_or_else(|| StatusCode::BAD_REQUEST)? when the locator addresses nothing
InvalidIndex(tx) == Abort(tx, BAD_REQUEST)

\* The geometry applied whatever the decision.
AppliesGeometryAlways(status) == TRUE

\* if payload.status == "accepted" { ... }
AppliesGeometry(status) == status = "accepted"

\* SELECT geometry FROM route_versions ... ORDER BY created_at DESC LIMIT 1
FetchVersion(tx, change, fail) ==
    Stmt(tx, fail, "fetch_version",
         IF HasVersion(tx.db, change.route_id) THEN tx ELSE Abort(tx, INTERNAL_SERVER_ERROR))

\* The locator is looked up in the geometry just read.
CheckIndex(tx, change) ==
    IF ~ Running(tx) THEN tx
    ELSE IF HasCoordinate(LatestVersion(tx.db, change.route_id).geometry,
                          change.feature_index, change.point_index)
         THEN tx
         ELSE InvalidIndex(tx)

\* INSERT INTO route_versions (route_id, geometry, created_by) of the
\* geometry with new_position at the locator.
InsertAcceptedVersion(tx, auth, change, fail, t) ==
    Stmt(tx, fail, "insert_version",
         InsertRouteVersion(tx, auth, change.route_id,
                            SetCoordinate(LatestVersion(tx.db, change.route_id).geometry,
                                          change.feature_index, change.point_index,
                                          change.new_position),
                            auth, t))

\* UPDATE routes SET updated_at = NOW() WHERE id = $1
TouchRoute(tx, auth, change, fail, t) ==
    Stmt(tx, fail, "touch_route",
         IF OwnerUpdateRoutes(tx.db, auth, change.route_id)
         THEN [tx EXCEPT !.db.routes[change.route_id].updated_at = t]
         ELSE tx)

\* SELECT control_points FROM routes WHERE id = $1
FetchControlPoints(tx, fail) == Stmt(tx, fail, "fetch_control_points", tx)

\* The control points are written back only when they are an array.
SaveAcceptedControlPoints(tx, auth, change, fail) ==
    IF ~ Running(tx) \/ tx.db.routes[change.route_id].control_points.kind # "array" THEN tx
    ELSE Stmt(tx, fail, "update_control_points",
              UpdateControlPoints(tx, auth, change.route_id,
                                  UpdateControlPoint(tx.db.routes[change.route_id].control_points,
                                                     change.point_index, change.new_position)))

\* The statements of the accept branch, on the running transaction tx.
ApplyPointChange(tx, auth, change, fail, t) ==
    SaveAcceptedControlPoints(
        FetchControlPoints(
            TouchRoute(
                InsertAcceptedVersion(CheckIndex(FetchVersion(tx, change, fail), change),
                                      auth, change, fail, t),
                auth, change, fail, t),
            fail),
        auth, change, fail)

\* SELECT * FROM route_point_changes WHERE id = $1, and NOT_FOUND without a row
FetchChange(tx, auth, change_id, fail) ==
    Stmt(tx, fail, "fetch_change",
         IF UsersReadPointChanges(tx.db, auth, change_id) THEN tx ELSE Abort(tx, NOT_FOUND))

\* The accept branch is taken when the decision is "accepted".
Decide(tx, auth, change_id, status, fail, t) ==
    IF Running(tx) /\ AppliesGeometry(status)
    THEN ApplyPointChange(tx, auth, tx.db.route_point_changes[change_id], fail, t)
    ELSE tx

\* UPDATE route_point_changes SET status, resolved_at = NOW(), resolved_by
\* ... RETURNING *, and FORBIDDEN without a row
UpdateStatus(tx, auth, change_id, status, fail, t) ==
    Stmt(tx, fail, "update_status",
         IF OwnersUpdatePointChanges(tx.db, auth, change_id)
         THEN [tx EXCEPT !.db.route_point_changes[change_id] =
                  [@ EXCEPT !.status = status, !.resolved_at = t, !.resolved_by = auth]]
         ELSE Abort(tx, FORBIDDEN))

update_point_change_status(db, auth, change_id, status, fail, t) ==
    Reply(Commit(db,
                 UpdateStatus(Decide(FetchChange(Begin(db, fail), auth, change_id, fail),
                                     auth, change_id, status, fail, t),
                              auth, change_id, status, fail, t),
                 fail),
          NoBody)

\* ------------------------------------------------------------------------
\* routes/proposals.rs
\* ------------------------------------------------------------------------
ProposalExists(db, id) == id \in DOMAIN db.route_proposals

\* INSERT INTO route_proposals (route_id, geometry, comment, created_by)
InsertRouteProposal(tx, auth, payload, fail, t) ==
    Stmt(tx, fail, "insert_proposal",
         [tx EXCEPT !.db.route_proposals =
             Append(@, [route_id |-> payload.id, geometry |-> payload.geometry,
                        comment |-> "comment", status |-> "pending",
                        created_by |-> auth, created_at |-> t])])

create_proposal(db, auth, payload, fail, t) ==
    Reply(Commit(db, InsertRouteProposal(Begin(db, fail), auth, payload, fail, t), fail), NoBody)

\* An acceptance that also appends the proposal's geometry as a version.
UpdateProposalApplies(tx, auth, id, status, fail) ==
    Stmt(tx, fail, "update_proposal",
         IF OwnersUpdateProposals(tx.db, auth, id)
         THEN [tx EXCEPT !.db.route_proposals[id].status = status,
                         !.db.route_versions =
                             IF status = "accepted"
                             THEN Append(@, [route_id |-> tx.db.route_proposals[id].route_id,
                                             geometry |-> tx.db.route_proposals[id].geometry,
                                             created_at |-> 0, created_by |-> auth])
                             ELSE @]
         ELSE Abort(tx, FORBIDDEN))

\* UPDATE route_proposals SET status = $1 WHERE id = $2 RETURNING *,
\* and FORBIDDEN without a row
UpdateProposal(tx, auth, id, status, fail) ==
    Stmt(tx, fail, "update_proposal",
         IF OwnersUpdateProposals(tx.db, auth, id)
         THEN [tx EXCEPT !.db.route_proposals[id].status = status]
         ELSE Abort(tx, FORBIDDEN))

update_proposal_status(db, auth, id, status, fail) ==
    Reply(Commit(db, UpdateProposal(Begin(db, fail), auth, id, status, fail), fail), NoBody)

\* ------------------------------------------------------------------------
\* Inputs of the requests
\* ------------------------------------------------------------------------
Line2 == <<JArr(<<0, 0>>), JArr(<<1, 0>>)>>
Line3 == <<JArr(<<0, 0>>), JArr(<<1, 0>>), JArr(<<1, 1>>)>>
RawGeometries ==
    {Geometry("MultiLineString", <<Line2>>), Geometry("MultiLineString", <<Line3>>), NoGeometry}

ControlPointInputs ==
    {JArray(<<JLngLat(0, 0), JLngLat(1, 0)>>),
     JArray(<<JLngLat(0, 0), JCoords(<<1, 0>>), JLngLat(1, 1)>>)}

\* (feature_index, point_index) of a request
Locators == {<<0, 0>>, <<0, 2>>, <<1, 0>>}
Positions == {JArr(<<2, 2>>), JLngLat(2, 2)}
Statuses == {"accepted", "rejected"}

RouteIds == 1..MaxRoutes
ChangeIds == 1..MaxChanges
ProposalIds == 1..MaxProposals
EditedRouteIds == 1..MaxEditedRoutes
ProposalGeometries == {Geometry("MultiLineString", <<Line2>>)}

\* The statements of each handler at which a store failure can be injected.
CreateRouteFails == {"none", "spatial", "begin", "insert_route", "insert_version", "commit"}
UpdateRouteFails == {"none", "spatial", "begin", "insert_version", "fetch_route", "commit"}
UpdateControlPointsFails ==
    {"none", "spatial", "begin", "fetch_route", "update_cp", "insert_version",
     "insert_change", "commit", "fetch_geometry"}
JoinFails == {"none", "begin", "upsert_session", "fetch_sessions", "commit"}
CreatePointChangeFails == {"none", "begin", "fetch_session", "insert_change", "commit"}
LeaveFails == {"none", "begin", "delete_session", "commit"}
HeartbeatFails == {"none", "begin", "update_heartbeat", "commit"}
CreateProposalFails == {"none", "begin", "insert_proposal", "commit"}
UpdateProposalFails == {"none", "begin", "update_proposal", "commit"}
ResolveFails ==
    {"none", "begin", "fetch_change", "fetch_version", "insert_version", "touch_route",
     "fetch_control_points", "update_control_points", "update_status", "commit"}

\* The requests a client can send.
Request(op, user, id, status, geometry, control_points, loc, position, fail) ==
    [op |-> op, user |-> user, id |-> id, status |-> status, geometry |-> geometry,
     control_points |-> control_points, feature_index |-> loc[1], point_index |-> loc[2],
     original_position |-> JArr(<<0, 0>>), new_position |-> position, fail |-> fail,
     user_email |-> EmailOf(user)]

CreateRouteRequests ==
    {Request("create_route", u, 0, "none", g, cps, <<0, 0>>, JNull, f) :
        u \in Users, g \in RawGeometries, cps \in ControlPointInputs, f \in CreateRouteFails}
UpdateRouteRequests ==
    {Request("update_route", u, id, "none", g, JNullArray, <<0, 0>>, JNull, f) :
        u \in Users, id \in RouteIds, g \in RawGeometries, f \in UpdateRouteFails}
UpdateControlPointsRequests ==
    {Request("update_route_control_points", u, id, "none", NoGeometry, cps, loc, JNull, f) :
        u \in Users, id \in RouteIds, cps \in ControlPointInputs, loc \in Locators,
        f \in UpdateControlPointsFails}
JoinRequests ==
    {Request("join_editing_session", u, id, "none", NoGeometry, JNullArray, <<0, 0>>, JNull, f) :
        u \in Users, id \in RouteIds, f \in JoinFails}
CreatePointChangeRequests ==
    {Request("create_point_change", u, id, "none", NoGeometry, JNullArray, loc, pos, f) :
        u \in Users, id \in RouteIds, loc \in Locators, pos \in Positions,
        f \in CreatePointChangeFails}
ResolveRequests ==
    {Request("update_point_change_status", u, id, st, NoGeometry, JNullArray, <<0, 0>>, JNull, f) :
        u \in Users, id \in ChangeIds, st \in Statuses, f \in ResolveFails}

\* CreateEditingSession.user_email is what the client sends: the email of
\* the token or any other text.
DisplayEmails(u) == {EmailOf(u), "guest"}
JoinAsRequests ==
    UNION {{[Request("join_editing_session", u, id, "none", NoGeometry, JNullArray, <<0, 0>>,
                     JNull, f) EXCEPT !.user_email = e] : e \in DisplayEmails(u)} :
           u \in Editors, id \in EditedRouteIds, f \in JoinFails}
LeaveRequests ==
    {Request("leave_editing_session", u, id, "none", NoGeometry, JNullArray, <<0, 0>>, JNull, f) :
        u \in Editors, id \in EditedRouteIds, f \in LeaveFails}
HeartbeatRequests ==
    {Request("heartbeat_editing_session", u, id, "none", NoGeometry, JNullArray, <<0, 0>>, JNull, f) :
        u \in Editors, id \in EditedRouteIds, f \in HeartbeatFails}
\* Routes to edit: the content of a route plays no part in its sessions.
EditedRouteRequests ==
    {req \in CreateRouteRequests :
        /\ req.geometry = Geometry("MultiLineString", <<Line2>>)
        /\ req.control_points = JArray(<<JLngLat(0, 0), JLngLat(1, 0)>>)}
CreateProposalRequests ==
    {Request("create_proposal", u, id, "none", g, JNullArray, <<0, 0>>, JNull, f) :
        u \in Users, id \in RouteIds, g \in ProposalGeometries, f \in CreateProposalFails}
UpdateProposalRequests ==
    {Request("update_proposal_status", u, id, st, NoGeometry, JNullArray, <<0, 0>>, JNull, f) :
        u \in Users, id \in ProposalIds, st \in Statuses, f \in UpdateProposalFails}

\* The handler a request is routed to (routes/mod.rs), run at time t.
Handle(db, req, t) ==
    CASE req.op = "create_route" ->
            create_route(db, req.user, req, req.fail, t)
      [] req.op = "update_route" ->
            update_route(db, req.user, req.id, req, req.fail, t)
      [] req.op = "update_route_control_points" ->
            update_route_control_points(db, req.user, req.id, req, req.fail, t)
      [] req.op = "join_editing_session" ->
            join_editing_session(db, req.user, req.id, req.user_email, req.fail, t)
      [] req.op = "create_point_change" ->
            create_point_change(db, req.user, req.id, req, req.fail, t)
      [] req.op = "update_point_change_status" ->
            update_point_change_status(db, req.user, req.id, req.status, req.fail, t)
      [] req.op = "leave_editing_session" ->
            leave_editing_session(db, req.user, req.id, req.fail)
      [] req.op = "heartbeat_editing_session" ->
            heartbeat_editing_session(db, req.user, req.id, req.fail, t)
      [] req.op = "create_proposal" ->
            create_proposal(db, req.user, req, req.fail, t)
      [] req.op = "update_proposal_status" ->
            update_proposal_status(db, req.user, req.id, req.status, req.fail)

\* ------------------------------------------------------------------------
\* The state machine
\* ------------------------------------------------------------------------
\* A run of the pipeline: the stage it is at, the raw geometry and the
\* environment it was given, what route_geometry returned and the lines
\* simplify_geometry made of it.
Run(stage, raw, env, routed, simplified) ==
    [stage |-> stage, raw |-> raw, env |-> env, routed |-> routed, simplified |-> simplified]
Idle == Run("idle", NoGeometry, Unconfigured(FALSE), RouteFailed("err"), <<>>)

EmptyStore ==
    /\ routes = <<>>
    /\ route_versions = <<>>
    /\ route_point_changes = <<>>
    /\ route_editing_sessions = {}
    /\ route_proposals = <<>>
    /\ sessions_created = 0
    /\ now = 0

\* No request in flight in the step-by-step models.
AtRest == pool = <<>> /\ race = <<>>

Init == EmptyStore /\ pipeline = Idle /\ AtRest

\* What the handler answers to req in the current state.
Outcome(req) == Handle(Db, req, now + 1)

\* The handler's result becomes the state; the clock advances with every
\* transaction that wrote.
Respond(req) ==
    \E r \in {Outcome(req)} :
        /\ routes' = r.db.routes
        /\ route_versions' = r.db.route_versions
        /\ route_point_changes' = r.db.route_point_changes
        /\ route_editing_sessions' = r.db.route_editing_sessions
        /\ route_proposals' = r.db.route_proposals
        /\ sessions_created' = r.db.sessions_created
        /\ now' = IF r.db = Db THEN now ELSE now + 1
        /\ pipeline' = pipeline
        /\ UNCHANGED <<pool, race>>

\* The bounds of the model: no request is sent that could exceed them.
WithinBounds(req) ==
    /\ now < MaxTime
    /\ req.op = "create_route" => Len(routes) < MaxRoutes
    /\ req.op \in {"create_route", "update_route", "update_route_control_points",
                   "update_point_change_status"} => Len(route_versions) < MaxVersions
    /\ req.op \in {"update_route_control_points", "create_point_change"}
          => Len(route_point_changes) < MaxChanges
    /\ req.op \in {"join_editing_session", "create_point_change", "leave_editing_session",
                   "heartbeat_editing_session", "create_proposal"} => req.id \in DOMAIN routes
    /\ req.op = "create_proposal" => Len(route_proposals) < MaxProposals

CreateRoute ==
    \E req \in CreateRouteRequests : WithinBounds(req) /\ Respond(req)

UpdateRoute ==
    \E req \in UpdateRouteRequests : WithinBounds(req) /\ Respond(req)

UpdateRouteControlPoints ==
    \E req \in UpdateControlPointsRequests : WithinBounds(req) /\ Respond(req)

JoinEditingSession ==
    \E req \in JoinRequests : WithinBounds(req) /\ Respond(req)

CreatePointChange ==
    \E req \in CreatePointChangeRequests : WithinBounds(req) /\ Respond(req)

UpdatePointChangeStatus ==
    \E req \in ResolveRequests : WithinBounds(req) /\ Respond(req)

Next ==
    \/ CreateRoute
    \/ UpdateRoute
    \/ UpdateRouteControlPoints
    \/ JoinEditingSession
    \/ CreatePointChange
    \/ UpdatePointChangeStatus

Spec == Init /\ [][Next]_vars

JoinEditingSessionAs ==
    \E req \in JoinAsRequests : WithinBounds(req) /\ Respond(req)

LeaveEditingSession ==
    \E req \in LeaveRequests : WithinBounds(req) /\ Respond(req)

HeartbeatEditingSession ==
    \E req \in HeartbeatRequests : WithinBounds(req) /\ Respond(req)

CreateProposal ==
    \E req \in CreateProposalRequests : WithinBounds(req) /\ Respond(req)

UpdateProposalStatus ==
    \E req \in UpdateProposalRequests : WithinBounds(req) /\ Respond(req)

CreateEditedRoute ==
    \E req \in EditedRouteRequests :
        /\ now < MaxTime
        /\ Len(routes) < MaxEditedRoutes
        /\ Len(route_versions) < MaxVersions
        /\ Respond(req)

\* The editing sessions alone: routes are created and editors join them
\* under any display email, send heartbeats and leave.
EditingNext ==
    \/ CreateEditedRoute
    \/ JoinEditingSessionAs
    \/ LeaveEditingSession
    \/ HeartbeatEditingSession

EditingSpec == Init /\ [][EditingNext]_vars

\* Every operation of the core.
CoreNext ==
    \/ Next
    \/ LeaveEditingSession
    \/ HeartbeatEditingSession
    \/ CreateProposal
    \/ UpdateProposalStatus

CoreSpec == Init /\ [][CoreNext]_vars

\* ------------------------------------------------------------------------
\* Properties.  A property of a handler is stated of its outcome for every
\* request in every reachable state of the store.
\* ------------------------------------------------------------------------
OwnerOf(id) == routes[id].owner_id
ControlPointsOf(db) == [id \in DOMAIN db.routes |-> db.routes[id].control_points]

\* The resolve requests for a change that exists.
ResolveOf(status) ==
    {req \in ResolveRequests : req.status = status /\ ChangeExists(Db, req.id)}

\* A position in the control-point form compared as a coordinate array.
NormalizedPosition(v) == JArr(v.v)

\* C1: PointChange.status is one-way.  A successful resolve of a pending
\* change sets the decided status, and every resolve of a change that is
\* already accepted or rejected fails and leaves the change, the route's
\* versions and the routes' control points as they were.
C1_StatusIsOneWay ==
    \A req \in ResolveOf("accepted") \cup ResolveOf("rejected") :
        \A r \in {Outcome(req)} :
            LET c == route_point_changes[req.id]
            IN  /\ (c.status = "pending" /\ r.code = OK)
                      => r.db.route_point_changes[req.id].status = req.status
                /\ c.status # "pending"
                      => /\ r.code # OK
                         /\ r.db.route_point_changes[req.id] = c
                         /\ r.db.route_versions = route_versions
                         /\ ControlPointsOf(r.db) = ControlPointsOf(Db)

\* C2: an accept is atomic.  Whenever an accept does not succeed, at whatever
\* statement it fails, the whole store is as before: the same versions, the
\* same control points, the change as it was.
C2_AcceptIsAtomic ==
    \A req \in ResolveOf("accepted") :
        \A r \in {Outcome(req)} : r.code # OK => r.db = Db

\* An accept of a pending change that would succeed fails at the last
\* statement, after the version and the control points were written.
C2_Witness ==
    \E req \in ResolveOf("accepted") :
        /\ route_point_changes[req.id].status = "pending"
        /\ req.fail = "update_status"
        /\ Outcome(req).code = INTERNAL_SERVER_ERROR
        /\ Outcome([req EXCEPT !.fail = "none"]).code = OK

\* C3: a successful accept of a pending change by the route's owner appends
\* exactly one version, whose geometry holds new_position at the locator;
\* control_points[point_index] holds new_position; the change is accepted and
\* resolved_at and resolved_by are set, resolved_by to the owner.
C3_AcceptEffects ==
    \A req \in ResolveOf("accepted") :
        \A r \in {Outcome(req)} :
            LET c   == route_point_changes[req.id]
                c2  == r.db.route_point_changes[req.id]
                cp2 == r.db.routes[c.route_id].control_points
                g2  == LatestVersion(r.db, c.route_id).geometry
            IN  (c.status = "pending" /\ req.user = OwnerOf(c.route_id) /\ r.code = OK)
                   => /\ Len(VersionsOf(r.db, c.route_id)) = Len(VersionsOf(Db, c.route_id)) + 1
                      /\ HasCoordinate(g2, c.feature_index, c.point_index)
                      /\ AtIndex(AtIndex(g2.coordinates, c.feature_index), c.point_index)
                            = c.new_position
                      /\ HasPositionAt(cp2, c.point_index)
                      /\ PositionAt(cp2, c.point_index) = NormalizedPosition(c.new_position)
                      /\ c2.status = "accepted"
                      /\ c2.resolved_at # 0
                      /\ c2.resolved_by = req.user

\* C4: an accept whose locator addresses no coordinate of the latest version
\* changes nothing and fails; it fails with 400 whenever the change and the
\* latest version could be read.
C4_InvalidLocatorRefused ==
    \A req \in ResolveOf("accepted") :
        \A r \in {Outcome(req)} :
            LET c == route_point_changes[req.id]
            IN  (/\ HasVersion(Db, c.route_id)
                 /\ ~ HasCoordinate(LatestVersion(Db, c.route_id).geometry,
                                    c.feature_index, c.point_index))
                   => /\ r.db = Db
                      /\ r.code # OK
                      /\ (/\ UsersReadPointChanges(Db, req.user, req.id)
                          /\ req.fail \notin {"begin", "fetch_change", "fetch_version"})
                            => r.code = BAD_REQUEST

\* The owner accepts a pending change whose locator is out of range: 400.
C4_Witness ==
    \E req \in ResolveOf("accepted") :
        LET c == route_point_changes[req.id]
        IN  /\ c.status = "pending"
            /\ req.user = OwnerOf(c.route_id)
            /\ req.fail = "none"
            /\ ~ HasCoordinate(LatestVersion(Db, c.route_id).geometry,
                               c.feature_index, c.point_index)
            /\ Outcome(req).code = BAD_REQUEST

ControlPointsBy(owner) ==
    {req \in UpdateControlPointsRequests :
        RouteExists(Db, req.id) /\ (req.user = OwnerOf(req.id)) = owner}

\* The update-route-geometry requests for a route that exists.
GeometryBy(owner) ==
    {req \in UpdateRouteRequests :
        RouteExists(Db, req.id) /\ (req.user = OwnerOf(req.id)) = owner}

\* C6: an update-control-point call by a user who is not the route's owner
\* never changes the routes or their versions, whatever its outcome, and
\* records at most one change.  When it succeeds, exactly one change is new:
\* pending, of that route and that user; and the response carries the route's
\* existing latest geometry and existing control points.
C6_NonOwnerOnlyProposes ==
    \A req \in ControlPointsBy(FALSE) :
        \A r \in {Outcome(req)} :
            LET n == Len(route_point_changes)
                c == r.db.route_point_changes[n + 1]
            IN  /\ r.db.routes = routes
                /\ r.db.route_versions = route_versions
                /\ r.db.route_editing_sessions = route_editing_sessions
                /\ \/ r.db.route_point_changes = route_point_changes
                   \/ r.db.route_point_changes = Append(route_point_changes, c)
                /\ r.code = OK
                     => /\ Len(r.db.route_point_changes) = n + 1
                        /\ c.status = "pending"
                        /\ c.route_id = req.id
                        /\ c.user_id = req.user
                        /\ r.body.geometry = LatestVersion(Db, req.id).geometry
                        /\ r.body.control_points = routes[req.id].control_points

\* A non-owner submits control points that differ from the route's and gets
\* the route's own back.
C6_Witness ==
    \E req \in ControlPointsBy(FALSE) :
        /\ Outcome(req).code = OK
        /\ req.control_points # routes[req.id].control_points
        /\ Outcome(req).body.control_points = routes[req.id].control_points

\* C7: an update-control-point call by the route's owner either succeeds,
\* and then the route's control_points are the submitted ones and exactly one
\* version is appended, of this route, holding the processed geometry the
\* response returns, and nothing else changes; or it fails and the store is
\* as before.
C7_OwnerUpdateIsAtomic ==
    \A req \in ControlPointsBy(TRUE) :
        \A r \in {Outcome(req)} :
            LET n == Len(route_versions)
                v == r.db.route_versions[n + 1]
            IN  /\ r.code # OK => r.db = Db
                /\ r.code = OK
                     => /\ r.db.routes = [routes EXCEPT ![req.id].control_points =
                                                           req.control_points]
                        /\ Len(r.db.route_versions) = n + 1
                        /\ r.db.route_versions = Append(route_versions, v)
                        /\ v.route_id = req.id
                        /\ v.geometry = r.body.geometry
                        /\ v.geometry.type = "MultiLineString"
                        /\ r.db.route_point_changes = route_point_changes
                        /\ r.db.route_editing_sessions = route_editing_sessions

\* The owner's update succeeds with new control points, and the same update
\* fails when the version insert fails.
C7_Witness ==
    \E req \in ControlPointsBy(TRUE) :
        /\ req.fail = "insert_version"
        /\ req.control_points # routes[req.id].control_points
        /\ Outcome(req).code = INTERNAL_SERVER_ERROR
        /\ Outcome([req EXCEPT !.fail = "none"]).code = OK

\* C8: update-route-geometry by a user who is not the route's owner changes
\* nothing and fails, with 403 whenever the geometry was processed and the
\* version insert reached the store; the same call by the owner, with a
\* well-formed geometry and no store failure, succeeds.
C8_GeometryUpdateOwnerOnly ==
    /\ \A req \in GeometryBy(FALSE) :
          \A r \in {Outcome(req)} :
              /\ r.db = Db
              /\ r.code # OK
              /\ (/\ req.geometry # NoGeometry
                  /\ req.fail \notin {"spatial", "begin", "insert_version"})
                    => r.code = FORBIDDEN
    /\ \A req \in GeometryBy(TRUE) :
          (req.geometry # NoGeometry /\ req.fail = "none") => Outcome(req).code = OK

\* A geometry that the owner can store is refused to someone else.
C8_Witness ==
    \E req \in GeometryBy(FALSE) :
        /\ req.fail = "none"
        /\ Outcome(req).code = FORBIDDEN
        /\ Outcome([req EXCEPT !.user = OwnerOf(req.id)]).code = OK

\* The versions of every route carry strictly increasing creation times.
TimestampsIncrease ==
    \A id \in DOMAIN routes :
        LET vs == VersionsOf(Db, id)
        IN  \A i, j \in DOMAIN vs : i < j => vs[i].created_at < vs[j].created_at

\* Every successful owner update-route-geometry adds exactly one version.
OwnerUpdateAddsOne ==
    \A req \in GeometryBy(TRUE) :
        \A r \in {Outcome(req)} :
            r.code = OK
              => Len(VersionsOf(r.db, req.id)) = Len(VersionsOf(Db, req.id)) + 1

\* No step removes a version of a route.
VersionsNeverDecrease ==
    \A id \in DOMAIN routes :
        Len(SelectSeq(route_versions', LAMBDA v : v.route_id = id))
            >= Len(VersionsOf(Db, id))

\* C9: each successful update-route-geometry call by the owner increases the
\* route's version count by exactly 1, no operation ever decreases it, and
\* the versions of a route carry strictly increasing creation timestamps.
C9_VersionCountGrows ==
    /\ [](OwnerUpdateAddsOne /\ TimestampsIncrease)
    /\ [][VersionsNeverDecrease]_vars

\* A route with the version of its creation and two more, and room for the
\* owner to add another.
C9_Witness ==
    \E req \in GeometryBy(TRUE) :
        /\ Len(VersionsOf(Db, req.id)) = MaxVersions
        /\ Outcome(req).code = OK
        /\ Len(VersionsOf(Outcome(req).db, req.id)) = MaxVersions + 1

\* C10: every route has at least one version; a successful create-route adds
\* one route with exactly one version; a create-route that fails, at the
\* version insert or the commit or anywhere else, leaves the store as it was.
C10_CreationIsAtomic ==
    /\ \A id \in DOMAIN routes : HasVersion(Db, id)
    /\ \A req \in CreateRouteRequests :
          \A r \in {Outcome(req)} :
              /\ r.code # OK => r.db = Db
              /\ r.code = OK
                   => /\ Len(r.db.routes) = Len(routes) + 1
                      /\ Len(VersionsOf(r.db, Len(routes) + 1)) = 1
                      /\ \A id \in DOMAIN routes :
                            VersionsOf(r.db, id) = VersionsOf(Db, id)

\* A route just created, and a second creation that fails at its version
\* insert.
C10_Witness ==
    /\ \E id \in DOMAIN routes : Len(VersionsOf(Db, id)) = 1
    /\ \E req \in CreateRouteRequests :
          /\ req.fail = "insert_version"
          /\ Outcome(req).code = INTERNAL_SERVER_ERROR
          /\ Outcome([req EXCEPT !.fail = "none"]).code = OK

\* Every version row is still there, unchanged and at its place.
VersionsKept ==
    /\ Len(route_versions') >= Len(route_versions)
    /\ \A i \in DOMAIN route_versions : route_versions'[i] = route_versions[i]

\* C11: RouteVersions are append-only.  Across every step of every
\* operation of the core, a version that exists before the step exists after
\* it with the same geometry, route reference and creation data.
C11_VersionsAppendOnly == [][VersionsKept]_vars

\* Three versions of a route, the last one written by an accept, after a
\* proposal was handled as well.
C11_Witness ==
    /\ Len(route_versions) = MaxVersions
    /\ route_versions[MaxVersions].created_by # NoUser
    /\ route_proposals # <<>>

\* C12: after every committed accept of a pending change c, whoever sent
\* it, control_points[c.point_index] read as [lng, lat] equals the latest
\* geometry's coordinates[c.feature_index][c.point_index], for every locator
\* for which the accept succeeds and every shape of c.new_position.
C12_ControlPointsFollowGeometry ==
    \A req \in ResolveOf("accepted") :
        \A r \in {Outcome(req)} :
            LET c   == route_point_changes[req.id]
                cp2 == r.db.routes[c.route_id].control_points
                g2  == LatestVersion(r.db, c.route_id).geometry
            IN  (c.status = "pending" /\ r.code = OK)
                   => /\ HasCoordinate(g2, c.feature_index, c.point_index)
                      /\ HasPositionAt(cp2, c.point_index)
                      /\ PositionAt(cp2, c.point_index)
                            = AtIndex(AtIndex(g2.coordinates, c.feature_index), c.point_index)

\* C13: only the owner of the parent route can resolve a change.  With the
\* store working, a resolve of a pending change by any other identity, the
\* proposer included, fails with Forbidden and leaves the change, the route's
\* versions and the routes' control points as they were.
C13_OnlyOwnerResolves ==
    \A req \in ResolveOf("accepted") \cup ResolveOf("rejected") :
        \A r \in {Outcome(req)} :
            LET c == route_point_changes[req.id]
            IN  (c.status = "pending" /\ req.user # OwnerOf(c.route_id) /\ req.fail = "none")
                   => /\ r.code = FORBIDDEN
                      /\ r.db.route_point_changes = route_point_changes
                      /\ r.db.route_versions = route_versions
                      /\ ControlPointsOf(r.db) = ControlPointsOf(Db)

\* The requests that can record a PointChange: create-point-change, and
\* update-control-point by someone who is not the route's owner.
ChangeCreations ==
    {req \in CreatePointChangeRequests : RouteExists(Db, req.id)} \cup ControlPointsBy(FALSE)

\* C14: a PointChange is recorded only for an identity that holds an
\* EditingSession on the route, on every path that records one.  Without a
\* session the call fails and records nothing; with one, the recorded
\* user_email is the email of the session row.
C14_ChangeNeedsSession ==
    \A req \in ChangeCreations :
        \A r \in {Outcome(req)} :
            LET held == SessionOf(Db, req.id, req.user)
                n    == Len(route_point_changes)
            IN  /\ held = {}
                     => r.code # OK /\ r.db.route_point_changes = route_point_changes
                /\ Len(r.db.route_point_changes) > n
                     => \E session \in held :
                            r.db.route_point_changes[n + 1].user_email = session.user_email

\* C15: every PointChange that is recorded addresses, by (feature_index,
\* point_index), a coordinate that exists in the route's latest geometry at
\* the time of creation; a creation with a locator out of range is refused.
C15_LocatorAddressesGeometry ==
    \A req \in ChangeCreations :
        \A r \in {Outcome(req)} :
            LET n == Len(route_point_changes)
            IN  Len(r.db.route_point_changes) > n
                   => /\ HasVersion(Db, req.id)
                      /\ HasCoordinate(LatestVersion(Db, req.id).geometry,
                                       r.db.route_point_changes[n + 1].feature_index,
                                       r.db.route_point_changes[n + 1].point_index)

\* ------------------------------------------------------------------------
\* The geometry pipeline on its own: route_geometry, then simplify_geometry,
\* applied to every input and environment below.
\* ------------------------------------------------------------------------
Origin == <<0, 0>>
East == <<1, 0>>
FarEast == <<2, 0>>
NorthEast == <<1, 1>>

\* The members of "coordinates": lines of no, one, two and three points, a
\* line with an entry that is not an array, a line with an entry of one
\* element, a member that is not an array, and a point of a LineString.
WireLines ==
    {<<>>,
     <<JArr(Origin)>>,
     <<JArr(Origin), JArr(East)>>,
     <<JArr(Origin), JArr(East), JArr(FarEast)>>,
     <<JArr(Origin), JArr(East), JArr(NorthEast)>>,
     <<JArr(Origin), JNull, JArr(NorthEast)>>,
     <<JNull, JArr(East)>>,
     <<JArr(Origin), JArr(<<1>>)>>,
     NotAnArray}
LineStrings ==
    {[type |-> "LineString", hasCoords |-> TRUE, coordinates |-> cs] :
        cs \in {<<<<JNum(0), JNum(0)>>, <<JNum(1), JNum(0)>>>>,
                <<<<JNum(0), JNum(0)>>, <<JNum(1), JNum(0)>>, <<JNum(1), JNum(1)>>>>}}
WireGeometries ==
    {NoGeometry, Geometry("MultiLineString", <<>>)}
        \cup {Geometry("MultiLineString", <<l>>) : l \in WireLines}
        \cup {Geometry("MultiLineString", <<l, m>>) : l, m \in WireLines}
        \cup LineStrings

ServiceOutcomes ==
    {"unconfigured", "unreachable", "error_status", "unparsable", "no_route", "route"}
Environments ==
    {Environment(spatial, near, track, snap, service) :
        spatial \in BOOLEAN,
        near \in {{}, {Origin, East}, {Origin, East, FarEast, NorthEast}},
        track \in {0, 1, 5},
        snap \in {0, 1},
        service \in ServiceOutcomes}

RoutingInit ==
    /\ EmptyStore
    /\ AtRest
    /\ pipeline \in {Run("received", raw, env, RouteFailed("err"), <<>>) :
                        raw \in WireGeometries, env \in Environments}

\* route_geometry(pool, raw_geometry, &routing_config).await
RouteGeometry ==
    /\ pipeline.stage = "received"
    /\ \E routed \in {route_geometry(pipeline.raw, pipeline.env)} :
          pipeline' = [pipeline EXCEPT !.stage = IF routed.status = "ok" THEN "routed" ELSE "failed",
                                       !.routed = routed]
    /\ UNCHANGED <<routes, route_versions, route_point_changes, route_editing_sessions,
                   route_proposals, sessions_created, now, pool, race>>

\* simplify_geometry(&routed_geometry, 0.0001)
SimplifyGeometry ==
    /\ pipeline.stage = "routed"
    /\ pipeline' = [pipeline EXCEPT !.stage = "simplified",
                                    !.simplified = SimplifyLines(pipeline.routed.lines)]
    /\ UNCHANGED <<routes, route_versions, route_point_changes, route_editing_sessions,
                   route_proposals, sessions_created, now, pool, race>>

RoutingNext == RouteGeometry \/ SimplifyGeometry
RoutingSpec == RoutingInit /\ [][RoutingNext]_vars

\* The handlers that persist processed geometry, on their own.
PipelineNext == CreateRoute \/ UpdateRoute \/ UpdateRouteControlPoints
PipelineSpec == Init /\ [][PipelineNext]_vars

\* The requests that persist processed geometry, and what the pipeline
\* makes of each one's input.
PipelineRequests ==
    CreateRouteRequests \cup UpdateRouteRequests
        \cup {req \in UpdateControlPointsRequests : WellFormed(req.control_points)}
PipelineOf(req) ==
    process_geometry(IF req.op = "update_route_control_points"
                     THEN ControlPointsGeometry(req.control_points)
                     ELSE req.geometry,
                     Unconfigured(req.fail = "spatial"))

\* C16: in every request that persists processed geometry the pipeline has
\* completed or failed before the transaction is opened.  When the pipeline
\* fails the handler answers with the pipeline's status, no transaction is
\* begun and the store is as before; a transaction is begun only after the
\* pipeline succeeded, and every version it appends holds the pipeline's
\* result.
C16_PipelineBeforeTransaction ==
    \A req \in PipelineRequests :
        \A r \in {Outcome(req)} :
            \A pg \in {PipelineOf(req)} :
                /\ pg.code # OK => (~ r.begun /\ r.code = pg.code /\ r.db = Db)
                /\ r.begun => pg.code = OK
                /\ \A i \in DOMAIN r.db.route_versions :
                      i > Len(route_versions) => r.db.route_versions[i].geometry = pg.geometry

\* The owner of a route sends it a geometry for which the spatial index
\* fails, and another for which a version is appended.
C16_Witness ==
    /\ \E req \in GeometryBy(TRUE) :
          /\ req.fail = "spatial"
          /\ PipelineOf(req).code # OK
          /\ ~ Outcome(req).begun
    /\ \E req \in GeometryBy(TRUE) :
          /\ Outcome(req).code = OK
          /\ Len(Outcome(req).db.route_versions) = Len(route_versions) + 1

\* The join requests for a route that exists.
Joins == {req \in JoinAsRequests : RouteExists(Db, req.id)}

\* C17: join is idempotent per (route, identity).  The store never holds two
\* sessions of one user on one route, and a successful join by a user who
\* already has a session there keeps that session's id, started_at and
\* email, sets its last_heartbeat, answers with the same session id and
\* started_at, and changes nothing else.
C17_JoinIsIdempotent ==
    /\ \A r, q \in route_editing_sessions :
          (r.route_id = q.route_id /\ r.user_id = q.user_id) => r = q
    /\ \A req \in Joins :
          \A r \in {Outcome(req)} :
              \A old \in SessionOf(Db, req.id, req.user) :
                  r.code = OK
                     => /\ r.db = [Db EXCEPT !.route_editing_sessions =
                                      (@ \ {old}) \cup {[old EXCEPT !.last_heartbeat = now + 1]}]
                        /\ r.body.session_id = old.id
                        /\ r.body.started_at = old.started_at

\* A user who joined earlier joins again, under another display email,
\* after other sessions were created.
C17_Witness ==
    \E req \in Joins :
        \E old \in SessionOf(Db, req.id, req.user) :
            /\ Outcome(req).code = OK
            /\ old.started_at < now
            /\ old.id < sessions_created
            /\ old.user_email # req.user_email

\* The sessions of the other users on a route, as the store holds them.
OthersOn(db, route_id, user) ==
    {q \in db.route_editing_sessions : q.route_id = route_id /\ q.user_id # user}

\* C18: a successful join answers with the caller's own session and with
\* exactly the sessions of the other users on the same route, each once,
\* never the caller's own and never a session of another route, in ascending
\* order of started_at.
C18_JoinListsTheOthers ==
    \A req \in Joins :
        \A r \in {Outcome(req)} :
            r.code = OK
               => LET listed == r.body.active_sessions
                  IN  /\ \E own \in SessionOf(r.db, req.id, req.user) :
                            /\ r.body.session_id = own.id
                            /\ r.body.started_at = own.started_at
                      /\ r.body.route_id = req.id
                      /\ r.body.user_id = req.user
                      /\ {listed[i] : i \in DOMAIN listed}
                            = {SessionInfo(q) : q \in OthersOn(r.db, req.id, req.user)}
                      /\ Len(listed) = Cardinality(OthersOn(r.db, req.id, req.user))
                      /\ \A i, j \in DOMAIN listed :
                            i < j => listed[i].started_at <= listed[j].started_at

\* A user joins a route on which two others joined at different times,
\* while a second route has a session too.
C18_Witness ==
    \E req \in Joins :
        /\ Outcome(req).code = OK
        /\ Len(Outcome(req).body.active_sessions) = 2
        /\ Outcome(req).body.active_sessions[1].started_at
              < Outcome(req).body.active_sessions[2].started_at
        /\ \E q \in route_editing_sessions : q.route_id # req.id

\* C19: a heartbeat changes nothing but last_heartbeat of the caller's own
\* session on the route.  When the caller has no session there it succeeds
\* and the store is as before: no row is created and no other session is
\* touched.  A heartbeat that fails leaves the store as before.
C19_HeartbeatTouchesOwnSession ==
    \A req \in HeartbeatRequests :
        \A r \in {Outcome(req)} :
            /\ r.code \in {OK, INTERNAL_SERVER_ERROR}
            /\ r.code = OK
                 => r.db = [Db EXCEPT !.route_editing_sessions =
                               {IF q \in SessionOf(Db, req.id, req.user)
                                THEN [q EXCEPT !.last_heartbeat = now + 1] ELSE q : q \in @}]
            /\ r.code # OK => r.db = Db
            /\ (SessionOf(Db, req.id, req.user) = {} /\ req.fail = "none")
                 => (r.code = OK /\ r.db = Db)

\* Two users hold sessions on a route: the heartbeat of one of them
\* succeeds, and so does the heartbeat of a third user who holds none.
C19_Witness ==
    \E id \in DOMAIN routes :
        /\ Cardinality({q \in route_editing_sessions : q.route_id = id}) = 2
        /\ \E req \in HeartbeatRequests :
              /\ req.id = id
              /\ SessionOf(Db, id, req.user) # {}
              /\ Outcome(req).code = OK
              /\ Outcome(req).db # Db
        /\ \E req \in HeartbeatRequests :
              /\ req.id = id
              /\ SessionOf(Db, id, req.user) = {}
              /\ Outcome(req).code = OK

\* The create-point-change requests of a user on a route, the store working.
ChangesBy(user, id) ==
    {Request("create_point_change", user, id, "none", NoGeometry, JNullArray, loc, pos, "none") :
        loc \in Locators, pos \in Positions}

\* Whether a join response lists a user among the active sessions.
Lists(body, user) ==
    \E i \in DOMAIN body.active_sessions : body.active_sessions[i].user_id = user

\* C20: a successful leave deletes exactly the caller's session on the
\* route and nothing else, and a failed one changes nothing.  In the store
\* it leaves, no join of another user on that route lists the caller, and
\* every create-point-change of the caller on that route fails with
\* Forbidden and records nothing.
C20_LeaveRemovesTheSession ==
    \A req \in LeaveRequests :
        \A r \in {Outcome(req)} :
            /\ r.code # NO_CONTENT => r.db = Db
            /\ r.code = NO_CONTENT
                 => /\ r.db = [Db EXCEPT !.route_editing_sessions =
                                  @ \ SessionOf(Db, req.id, req.user)]
                    /\ \A j \in Joins :
                          (j.id = req.id /\ j.user # req.user)
                             => \A joined \in {Handle(r.db, j, now + 2)} :
                                    joined.code = OK => ~ Lists(joined.body, req.user)
                    /\ \A cp \in ChangesBy(req.user, req.id) :
                          \A made \in {Handle(r.db, cp, now + 2)} :
                              made.code = FORBIDDEN /\ made.db = r.db

\* A user who is listed to another editor of the route, and who could
\* record a change, leaves.
C20_Witness ==
    \E req \in LeaveRequests :
        /\ Outcome(req).code = NO_CONTENT
        /\ \E j \in Joins :
              /\ j.id = req.id
              /\ j.user # req.user
              /\ Outcome(j).code = OK
              /\ Lists(Outcome(j).body, req.user)
        /\ \E cp \in ChangesBy(req.user, req.id) : Outcome(cp).code = OK

\* The update-proposal-status requests for a proposal that exists.
ProposalDecisions == {req \in UpdateProposalRequests : ProposalExists(Db, req.id)}

\* C21: changing a proposal's status is a status transition only.  Whatever
\* its outcome, the call leaves the routes (control_points included), the
\* versions and so the latest geometry, the point changes and the sessions
\* as they were; when it succeeds the proposal's status is the one sent, and
\* when it fails the store is as before.
C21_ProposalStatusOnly ==
    \A req \in ProposalDecisions :
        \A r \in {Outcome(req)} :
            /\ r.db.routes = routes
            /\ r.db.route_versions = route_versions
            /\ r.db.route_point_changes = route_point_changes
            /\ r.db.route_editing_sessions = route_editing_sessions
            /\ r.code = OK => r.db.route_proposals[req.id].status = req.status
            /\ r.code # OK => r.db = Db

\* The owner accepts a pending proposal whose geometry is not the route's
\* latest geometry.
C21_Witness ==
    \E req \in ProposalDecisions :
        LET p == route_proposals[req.id]
        IN  /\ req.status = "accepted"
            /\ p.status = "pending"
            /\ Outcome(req).code = OK
            /\ p.geometry # LatestVersion(Db, p.route_id).geometry

\* The input's members are arrays whose array entries have two elements.
Parses(raw) ==
    /\ raw.hasCoords
    /\ \A i \in DOMAIN raw.coordinates :
          IsArray(raw.coordinates[i]) /\ ~ ParsePanics(raw.coordinates[i])

\* The segments of an input: the pairs of consecutive valid points of a line.
Segments(raw) ==
    UNION {{<<ParsePoints(raw.coordinates[i])[j], ParsePoints(raw.coordinates[i])[j + 1]>> :
                j \in 1..(Len(ParsePoints(raw.coordinates[i])) - 1)} :
           i \in DOMAIN raw.coordinates}
OnRoad(raw, env) == {seg \in Segments(raw) : ~ OffRoad(env, seg[1], seg[2])}

\* C22: a failure of the road-routing service never aborts routing.  With
\* the spatial index working, whenever the service is unconfigured,
\* unreachable, answers with a non-success status, answers with an
\* unparsable body or returns no route, route_geometry returns Ok and every
\* on-road segment is the straight segment with confidence 0.5.
C22_ServiceFailureNeverAborts ==
    (/\ pipeline.stage \in {"routed", "failed"}
     /\ Parses(pipeline.raw)
     /\ ~ pipeline.env.spatial
     /\ pipeline.env.service # "route")
        => /\ pipeline.routed.status = "ok"
           /\ \A seg \in OnRoad(pipeline.raw, pipeline.env) :
                 RouteSegment(seg[1], seg[2], pipeline.env)
                    = Routed(Straight(seg[1], seg[2]), 5)

\* The raw geometry a request hands to the pipeline.
PipelineInput(req) ==
    IF req.op = "update_route_control_points"
    THEN ControlPointsGeometry(req.control_points)
    ELSE req.geometry

\* C23: a failure of a spatial-index query during routing is fatal to the
\* whole operation.  For every create-route, update-route-geometry and
\* update-control-point request whose input has a segment, when the spatial
\* index fails route_geometry returns an error, the call answers with a
\* server error and the store is as before: no route, version,
\* control_points change or point change is persisted.
C23_SpatialFailureIsFatal ==
    \A req \in PipelineRequests :
        (req.fail = "spatial" /\ Parses(PipelineInput(req)) /\ Segments(PipelineInput(req)) # {})
           => \A r \in {Outcome(req)} :
                 /\ route_geometry(PipelineInput(req), Unconfigured(TRUE)).status = "err"
                 /\ r.code = INTERNAL_SERVER_ERROR
                 /\ r.db = Db

\* The owner of a route and another user each send it control points that
\* would be stored or recorded, and the spatial index fails.
C23_Witness ==
    \E req \in ControlPointsBy(TRUE), other \in ControlPointsBy(FALSE) :
        /\ req.fail = "spatial"
        /\ other.fail = "spatial"
        /\ Outcome(req).code = INTERNAL_SERVER_ERROR
        /\ Outcome(other).code = INTERNAL_SERVER_ERROR
        /\ Outcome([req EXCEPT !.fail = "none"]).code = OK
        /\ Outcome([other EXCEPT !.fail = "none"]).code = OK

\* C24: the confidence route_geometry returns, a fraction num / den, lies in
\* [0, 1] for every input and every mix of off-road, on-road and fallback
\* segments with stored track confidences in 1..5, and is exactly 0 when the
\* input has no segment (no lines, empty lines, single-point lines only).
C24_ConfidenceInRange ==
    pipeline.stage = "routed"
       => /\ pipeline.routed.confidence[2] > 0
          /\ 0 <= pipeline.routed.confidence[1]
          /\ pipeline.routed.confidence[1] <= pipeline.routed.confidence[2]
          /\ Segments(pipeline.raw) = {} => pipeline.routed.confidence[1] = 0

\* A line of three points routed off-road along a track of confidence 5 for
\* its first segment and on-road, by the service, for its second.
C24_Witness ==
    /\ pipeline.stage = "routed"
    /\ pipeline.env.track = 5
    /\ pipeline.env.service = "route"
    /\ Segments(pipeline.raw) \ OnRoad(pipeline.raw, pipeline.env) # {}
    /\ OnRoad(pipeline.raw, pipeline.env) # {}
    /\ pipeline.routed.confidence = <<19, 20>>

\* The lines the simplifier is given that have at least two points.
LinesToSimplify == SelectSeq(pipeline.routed.lines, LAMBDA line : Len(line) >= 2)

LinesWithSegments ==
    SelectSeq(pipeline.raw.coordinates, LAMBDA line : Len(ParsePoints(line)) >= 2)

\* C26: the pipeline keeps the grouping into lines and drops degenerate
\* lines.  Its output has exactly one line for each input line with at least
\* two valid points, in input order, each running from that line's first
\* valid point to its last, and so none for an empty or single-point line;
\* an input without lines gives an output without lines.
C26_LineGroupingPreserved ==
    pipeline.stage = "simplified"
       => /\ Len(pipeline.simplified) = Len(LinesWithSegments)
          /\ \A i \in DOMAIN pipeline.simplified :
                /\ pipeline.simplified[i][1] = JArr(ParsePoints(LinesWithSegments[i])[1])
                /\ pipeline.simplified[i][Len(pipeline.simplified[i])]
                      = JArr(ParsePoints(LinesWithSegments[i])[Len(ParsePoints(LinesWithSegments[i]))])
          /\ pipeline.raw.coordinates = <<>> => pipeline.simplified = <<>>

\* An input of a single-point line followed by a line of three points comes
\* out as one line.
C26_Witness ==
    /\ pipeline.stage = "simplified"
    /\ Len(pipeline.raw.coordinates) = 2
    /\ Len(ParsePoints(pipeline.raw.coordinates[1])) = 1
    /\ Len(ParsePoints(pipeline.raw.coordinates[2])) = 3
    /\ Len(pipeline.simplified) = 1
    /\ Len(pipeline.simplified[1]) = 3

\* Geometries that are malformed: "coordinates" missing or not an array, a
\* line that is not an array, a coordinate entry of one number, a coordinate
\* entry that is not an array.
MalformedGeometries ==
    {NoGeometry,
     Geometry("MultiLineString", <<NotAnArray>>),
     Geometry("MultiLineString", <<<<JArr(Origin), JArr(<<1>>)>>>>),
     Geometry("MultiLineString", <<<<JArr(Origin), JNull, JArr(NorthEast)>>>>)}

\* C27: malformed input geometry is reported as a client-input error.  Every
\* create-route and update-route-geometry request that carries a malformed
\* geometry is answered with a 4xx status, not with a server error and not
\* with a crash that leaves the caller without a response, and the store is
\* as before.
C27_MalformedGeometryIsClientError ==
    \A req \in CreateRouteRequests \cup UpdateRouteRequests :
        \A g \in MalformedGeometries :
            \A r \in {Outcome([req EXCEPT !.geometry = g])} :
                /\ r.code \in 400..499
                /\ r.db = Db

\* C28: a LineString is consumed like a MultiLineString.  For every
\* create-route and update-route-geometry request that carries a LineString
\* of n >= 2 points and succeeds, the returned geometry and the geometry of
\* the version it stores have the type of the submitted geometry and n
\* coordinate entries.
C28_LineStringConsumed ==
    \A req \in CreateRouteRequests \cup UpdateRouteRequests :
        \A g \in LineStrings :
            \A r \in {Outcome([req EXCEPT !.geometry = g])} :
                r.code = OK
                   => /\ r.body.geometry.type = g.type
                      /\ Len(r.body.geometry.coordinates) = Len(g.coordinates)
                      /\ Len(r.db.route_versions) = Len(Db.route_versions) + 1
                      /\ r.db.route_versions[Len(r.db.route_versions)].geometry = r.body.geometry

\* The calls that address a row by id, with the store working and, for
\* update-route-geometry, a geometry the pipeline accepts.
AddressedCalls ==
    {req \in UpdateRouteRequests \cup UpdateProposalRequests \cup ResolveRequests :
        /\ req.fail = "none"
        /\ req.op = "update_route" => PipelineOf(req).code = OK}

\* The row a call addresses exists; the route it belongs to.
AddressedRowExists(req) ==
    CASE req.op = "update_route" -> RouteExists(Db, req.id)
      [] req.op = "update_proposal_status" -> ProposalExists(Db, req.id)
      [] req.op = "update_point_change_status" -> ChangeExists(Db, req.id)
AddressedRoute(req) ==
    CASE req.op = "update_route" -> req.id
      [] req.op = "update_proposal_status" -> route_proposals[req.id].route_id
      [] req.op = "update_point_change_status" -> route_point_changes[req.id].route_id

\* C29: NotFound is told apart from Forbidden.  update-route-geometry,
\* update-proposal-status and resolve-point-change with an id that does not
\* exist answer NotFound and leave the store as it was; the same calls on a
\* row that exists, from a caller who does not own its route, answer
\* Forbidden.
C29_NotFoundDistinctFromForbidden ==
    \A req \in AddressedCalls :
        \A r \in {Outcome(req)} :
            /\ ~ AddressedRowExists(req) => (r.code = NOT_FOUND /\ r.db = Db)
            /\ (AddressedRowExists(req) /\ req.user # OwnerOf(AddressedRoute(req)))
                  => r.code = FORBIDDEN

\* C30: resolve-point-change accepts only accepted and rejected.  With the
\* store working, a resolve of an existing change with the status pending
\* is answered with a client-input (4xx) error and leaves the store as it
\* was: the change's status, resolved_at and resolved_by, the versions and
\* the control points; so no call moves a change back to pending.
C30_OnlyDecisionsAccepted ==
    \A req \in ResolveOf("accepted") :
        req.fail = "none"
           => \A r \in {Outcome([req EXCEPT !.status = "pending"])} :
                 /\ r.code \in 400..499
                 /\ r.db = Db

\* The status and the shape of a response: its fields and the JSON kinds of
\* their values.
ResponseShape(r) ==
    [code |-> r.code, fields |-> DOMAIN r.body,
     geometry |-> r.body.geometry.type, control_points |-> r.body.control_points.kind]

\* C31: the response of update-control-point tells the two outcomes apart.
\* For every route, a successful response to its owner (edit applied) differs
\* in status or shape from a successful response to anyone else (proposal
\* recorded), whatever control points were submitted.
C31_OutcomesDistinguishable ==
    \A own \in ControlPointsBy(TRUE), other \in ControlPointsBy(FALSE) :
        (own.id = other.id /\ Outcome(own).code = OK /\ Outcome(other).code = OK)
           => ResponseShape(Outcome(own)) # ResponseShape(Outcome(other))

\* Every route that exists before a step exists after it with the same
\* owner and the same name.
MetadataKept ==
    \A id \in DOMAIN routes :
        /\ id \in DOMAIN routes'
        /\ routes'[id].owner_id = routes[id].owner_id
        /\ routes'[id].name = routes[id].name

\* C33: a route's owner and name never change after creation.  No step of
\* update-route-geometry, update-control-point, point-change creation or
\* resolution, a proposal or a session operation, by any identity, changes
\* owner_id or name of a route that exists.
C33_OwnerAndNameImmutable == [][MetadataKept]_vars

\* A route whose control points were overwritten after its creation and on
\* which somebody else's change was resolved.
C33_Witness ==
    \E id \in DOMAIN routes :
        /\ routes[id].updated_at > routes[id].created_at
        /\ \E i \in DOMAIN route_point_changes :
              /\ route_point_changes[i].route_id = id
              /\ route_point_changes[i].user_id # routes[id].owner_id
              /\ route_point_changes[i].status = "accepted"
        /\ \E i \in DOMAIN route_versions :
              route_versions[i].route_id = id /\ i > 1

\* The confidence, in tenths, the routing rules give the segment from a to
\* b: off-road when both ends are near a track, with the matched track's
\* stored confidence over 5 (2 tenths per unit) or 0.3 without a match;
\* on-road otherwise, with 0.9 for a route returned and 0.5 for the fallback.
SegmentTenths(a, b, env) ==
    IF a \in env.near /\ b \in env.near
    THEN (IF env.track > 0 THEN 2 * env.track ELSE 3)
    ELSE (IF env.service = "route" THEN 9 ELSE 5)

\* The segments of the input as a function from (line, position) to the pair
\* of points, and the sum of their confidences.
SegmentIndex(raw) ==
    UNION {{<<i, j>> : j \in 1..(Len(ParsePoints(raw.coordinates[i])) - 1)} :
           i \in DOMAIN raw.coordinates}
RECURSIVE SumTenths(_, _, _)
SumTenths(raw, index, env) ==
    IF index = {} THEN 0
    ELSE LET ij == CHOOSE x \in index : TRUE
             points == ParsePoints(raw.coordinates[ij[1]])
         IN  SegmentTenths(points[ij[2]], points[ij[2] + 1], env)
                + SumTenths(raw, index \ {ij}, env)

\* C34: per consecutive pair of waypoints the router chooses off-road mode
\* exactly when both are within the threshold of a track.  Whenever
\* route_geometry returns Ok, the confidence it returns is the arithmetic
\* mean, over all segments of all lines, of: the matched track's confidence
\* divided by 5 (off-road), 0.3 (off-road without a match), 0.9 (on-road,
\* route returned), 0.5 (on-road fallback); and each segment is routed with
\* the confidence of its mode.
C34_ModeAndConfidence ==
    pipeline.stage = "routed"
       => /\ pipeline.routed.confidence[1] * 10 * Cardinality(SegmentIndex(pipeline.raw))
                = SumTenths(pipeline.raw, SegmentIndex(pipeline.raw), pipeline.env)
                     * pipeline.routed.confidence[2]
          /\ \A ij \in SegmentIndex(pipeline.raw) :
                \A points \in {ParsePoints(pipeline.raw.coordinates[ij[1]])} :
                    RouteSegment(points[ij[2]], points[ij[2] + 1], pipeline.env).confidence
                        = SegmentTenths(points[ij[2]], points[ij[2] + 1], pipeline.env)

\* A line of three points with the first two near a track of confidence 5
\* and a service that returns a route: one off-road segment (1.0) and one
\* on-road segment (0.9), mean 19/20.
C34_Witness ==
    /\ pipeline.stage = "routed"
    /\ pipeline.raw.coordinates = <<<<JArr(Origin), JArr(East), JArr(FarEast)>>>>
    /\ pipeline.env.near = {Origin, East}
    /\ pipeline.env.track = 5
    /\ pipeline.env.service = "route"
    /\ pipeline.routed.confidence = <<19, 20>>

\* C35: the leading point of each segment is skipped, so that no waypoint is
\* emitted twice.  When route_geometry returns Ok for an input whose lines
\* all have at least two valid points and whose segments are all routed as
\* the straight two-point fallback, each routed line, before simplification,
\* is exactly the waypoints of its input line in order.
C35_NoWaypointTwice ==
    (/\ pipeline.stage = "routed"
     /\ pipeline.env.near = {}
     /\ pipeline.env.service \in {"unconfigured", "error_status", "no_route"}
     /\ \A i \in DOMAIN pipeline.raw.coordinates :
           Len(ParsePoints(pipeline.raw.coordinates[i])) >= 2)
       => /\ Len(pipeline.routed.lines) = Len(pipeline.raw.coordinates)
          /\ \A i \in DOMAIN pipeline.routed.lines :
                pipeline.routed.lines[i] = ParsePoints(pipeline.raw.coordinates[i])

\* A control point of either wire form read as [lng, lat], and whether a
\* control_points value holds one at a 0-based index.
AsLngLat(p) == IF p.t = "lnglat" THEN JArr(<<p.v[1], p.v[2]>>) ELSE JArr(p.v)
HoldsPoint(control_points, i) ==
    control_points.kind = "array" /\ i >= 0 /\ i < Len(control_points.items)

\* Control points a non-owner submits: a point in each wire form that differs
\* from the route's, and arrays shorter and longer than the route's.
ProposedControlPoints ==
    ControlPointInputs
        \cup {JArray(<<JCoords(<<2, 2>>), JLngLat(3, 3)>>),
              JArray(<<JLngLat(2, 2)>>),
              JArray(<<JLngLat(0, 0), JLngLat(1, 0), JCoords(<<3, 3>>), JLngLat(4, 4)>>)}
ProposedIndices == {0 - 1, 0, 1, 2, 3}

\* The update-control-point requests of somebody who is not the owner, with
\* the store working.
ProposingRequests ==
    {[req EXCEPT !.control_points = cps, !.point_index = i] :
        req \in {q \in ControlPointsBy(FALSE) : q.fail = "none"},
        cps \in ProposedControlPoints, i \in ProposedIndices}

\* The store as it is, and with the addressed route holding no control points.
WithoutControlPoints(id) == [Db EXCEPT !.routes[id].control_points = JNullArray]

\* C36: in the non-owner branch of update-control-point the recorded change
\* holds, as [lng, lat], the route's existing control point at point_index
\* as original_position and the submitted control point at point_index as
\* new_position, whichever wire form each has.  When the route has no
\* control points or point_index is outside the existing or the submitted
\* array, the call fails with a client error and records nothing.
C36_ProposalPositions ==
    \A req \in ProposingRequests :
        \A db \in {Db, WithoutControlPoints(req.id)} :
            \A r \in {Handle(db, req, now + 1)} :
                IF /\ HoldsPoint(db.routes[req.id].control_points, req.point_index)
                   /\ HoldsPoint(req.control_points, req.point_index)
                THEN /\ r.code = OK
                     /\ Len(r.db.route_point_changes) = Len(db.route_point_changes) + 1
                     /\ \A c \in {r.db.route_point_changes[Len(r.db.route_point_changes)]} :
                           /\ c.original_position
                                 = AsLngLat(db.routes[req.id].control_points.items[req.point_index + 1])
                           /\ c.new_position
                                 = AsLngLat(req.control_points.items[req.point_index + 1])
                ELSE /\ r.code \in 400..499
                     /\ r.db = db

\* A non-owner's change recorded from a point sent as {coordinates: [..]}
\* against an existing point stored as {lng, lat}, and a refused request
\* whose index is outside the route's control points only.
C36_Witness ==
    /\ \E req \in ProposingRequests :
          /\ Outcome(req).code = OK
          /\ req.control_points.items[req.point_index + 1].t
                # routes[req.id].control_points.items[req.point_index + 1].t
          /\ AsLngLat(req.control_points.items[req.point_index + 1])
                # AsLngLat(routes[req.id].control_points.items[req.point_index + 1])
    /\ \E req \in ProposingRequests :
          /\ Outcome(req).code = BAD_REQUEST
          /\ HoldsPoint(req.control_points, req.point_index)
          /\ ~ HoldsPoint(routes[req.id].control_points, req.point_index)

\* Two geometries differ at most at coordinates[feature_index][point_index].
SameBut(g, h, feature_index, point_index) ==
    /\ h.type = g.type
    /\ Len(h.coordinates) = Len(g.coordinates)
    /\ \A i \in DOMAIN g.coordinates :
          /\ Len(h.coordinates[i]) = Len(g.coordinates[i])
          /\ \A j \in DOMAIN g.coordinates[i] :
                (i # feature_index + 1 \/ j # point_index + 1)
                   => h.coordinates[i][j] = g.coordinates[i][j]

\* The store with a second line in every geometry and a copy of every change
\* at the next point index: what a route of two lines with further pending
\* changes holds.
Widened ==
    [Db EXCEPT !.route_versions =
                   [i \in DOMAIN @ |->
                       [@[i] EXCEPT !.geometry.coordinates = Append(@, Line2)]],
               !.route_point_changes =
                   @ \o [i \in DOMAIN @ |-> [@[i] EXCEPT !.point_index = @ + 1]]]

\* C40: an accept changes nothing but its target.  After every successful
\* accept of a change c, exactly one version is appended, of c's route, and
\* its geometry equals the previous latest geometry at every address other
\* than coordinates[c.feature_index][c.point_index], with the same number of
\* lines and of points per line; the route's control points keep their
\* number and every entry other than control_points[c.point_index]; every
\* other route's control points and every other change are as before.
C40_AcceptChangesOnlyItsTarget ==
    \A req \in ResolveOf("accepted") :
        \A db \in {Db, Widened} :
            \A r \in {Handle(db, req, now + 1)}, c \in {db.route_point_changes[req.id]} :
                r.code = OK
                   => /\ Len(r.db.route_versions) = Len(db.route_versions) + 1
                      /\ SubSeq(r.db.route_versions, 1, Len(db.route_versions))
                            = db.route_versions
                      /\ r.db.route_versions[Len(r.db.route_versions)].route_id = c.route_id
                      /\ SameBut(LatestVersion(db, c.route_id).geometry,
                                 r.db.route_versions[Len(r.db.route_versions)].geometry,
                                 c.feature_index, c.point_index)
                      /\ DOMAIN r.db.routes = DOMAIN db.routes
                      /\ \A id \in DOMAIN db.routes :
                            /\ r.db.routes[id].control_points.kind
                                  = db.routes[id].control_points.kind
                            /\ Len(r.db.routes[id].control_points.items)
                                  = Len(db.routes[id].control_points.items)
                            /\ \A k \in DOMAIN db.routes[id].control_points.items :
                                  (id # c.route_id \/ k # c.point_index + 1)
                                     => r.db.routes[id].control_points.items[k]
                                           = db.routes[id].control_points.items[k]
                      /\ DOMAIN r.db.route_point_changes = DOMAIN db.route_point_changes
                      /\ \A i \in DOMAIN db.route_point_changes :
                            i # req.id
                               => r.db.route_point_changes[i] = db.route_point_changes[i]

\* An accept that succeeds on a route of two lines with another pending
\* change, the first line of three points, two or more control points, and
\* moves the addressed coordinate and the addressed control point.
C40_Witness ==
    \E req \in ResolveOf("accepted") :
        \E r \in {Handle(Widened, req, now + 1)}, c \in {route_point_changes[req.id]} :
            /\ r.code = OK
            /\ Len(r.db.route_point_changes) >= 2
            /\ Len(LatestVersion(Widened, c.route_id).geometry.coordinates) = 2
            /\ Len(LatestVersion(Widened, c.route_id).geometry.coordinates[1]) = 3
            /\ r.db.route_versions[Len(r.db.route_versions)].geometry
                  # LatestVersion(Widened, c.route_id).geometry
            /\ r.db.routes[c.route_id].control_points # routes[c.route_id].control_points
            /\ Len(routes[c.route_id].control_points.items) >= 2

\* ------------------------------------------------------------------------
\* The connection pool and RlsTransaction::begin, step by step
\* ------------------------------------------------------------------------
PoolSize == 1
MaxClients == 2
Clients == 1..MaxClients

\* AuthUser.id as text: its form, the lengths of its groups of characters and
\* whether all of them are hexadecimal digits.
UserId(form, groups, hex) == [form |-> form, groups |-> groups, hex |-> hex]
UserIds ==
    {UserId("hyphenated", <<8, 4, 4, 4, 12>>, TRUE),
     UserId("hyphenated", <<8, 4, 4, 4, 12>>, FALSE),
     UserId("simple", <<5>>, FALSE)}
Roles == {"authenticated", "anon", "postgres"}

\* Every id passes for a UUID.
AnyUserId(id) == TRUE

\* uuid::Uuid::parse_str(&auth.id).is_ok()
parse_str(id) ==
    /\ id.hex
    /\ \/ id.form = "hyphenated" /\ id.groups = <<8, 4, 4, 4, 12>>
       \/ id.form = "simple" /\ id.groups = <<32>>

\* allowed_roles.contains(&auth.role.as_str())
allowed_roles == {"authenticated", "anon", "service_role"}

\* The steps of a handler in the order of its code.  "query" runs one
\* statement on a connection of its own taken from the pool; "begin" is
\* pool.begin(), "validate" and "set_local" the rest of RlsTransaction::begin;
\* "statement" runs on the transaction; "commit" ends it.
Handlers ==
    {"list_routes", "create_route", "update_route_control_points (owner)",
     "update_route_control_points (proposal)", "update_point_change_status"}
InTransaction == <<"begin", "validate", "set_local", "statement", "statement", "commit">>

\* A handler that opens its transaction before the pipeline runs.
TransactionFirst(handler) ==
    IF handler = "list_routes" THEN <<"query">>
    ELSE <<"begin", "validate", "set_local", "query", "query", "statement", "commit">>

Program(handler) ==
    CASE handler = "list_routes" -> <<"query">>
      [] handler = "create_route" -> <<"query", "query">> \o InTransaction
      [] handler = "update_route_control_points (owner)" -> <<"query", "query">> \o InTransaction
      [] handler = "update_route_control_points (proposal)" ->
            <<"query", "query">> \o InTransaction \o <<"query">>
      [] handler = "update_point_change_status" -> InTransaction

\* A request: the handler it runs, who sent it, the step it is at, whether
\* it holds a connection taken by a pool-level query, whether it holds an
\* open transaction (and with it a connection), and how it ended.
ClientRequest(handler, id, role) ==
    [handler |-> handler, id |-> id, role |-> role, step |-> 1,
     querying |-> FALSE, tx |-> FALSE, began |-> FALSE, outcome |-> "running"]
ClientRequests ==
    {ClientRequest(handler, id, role) : handler \in Handlers, id \in UserIds, role \in Roles}

Step(c) == Program(pool.clients[c].handler)[pool.clients[c].step]
InFlight(c) == pool.clients[c].outcome = "running"
Held(c) == (IF pool.clients[c].querying THEN 1 ELSE 0) + (IF pool.clients[c].tx THEN 1 ELSE 0)

\* The request moves to its next step, or is answered after its last one.
Advance(r) ==
    IF r.step = Len(Program(r.handler)) THEN [r EXCEPT !.outcome = "ok"]
    ELSE [r EXCEPT !.step = @ + 1]

\* An error return: a transaction that is open is dropped, which rolls it
\* back and gives its connection back to the pool.
Dropped(r) == [r EXCEPT !.tx = FALSE, !.querying = FALSE, !.outcome = "error"]

\* The tables are not part of the pool's bookkeeping.
StoreUntouched ==
    UNCHANGED <<routes, route_versions, route_point_changes, route_editing_sessions,
                route_proposals, sessions_created, pipeline, race, now>>

PoolInit ==
    /\ EmptyStore
    /\ pipeline = Idle
    /\ race = <<>>
    /\ pool \in {[idle |-> PoolSize, clients |-> clients] : clients \in [Clients -> ClientRequests]}

\* A pool-level query takes a connection when one is idle.
AcquireConnection(c) ==
    /\ InFlight(c) /\ Step(c) = "query" /\ ~ pool.clients[c].querying
    /\ pool.idle > 0
    /\ pool' = [pool EXCEPT !.idle = @ - 1, !.clients[c].querying = TRUE]
    /\ StoreUntouched

\* The query returns, with a row or an error, and its connection goes back.
ReleaseConnection(c) ==
    /\ InFlight(c) /\ Step(c) = "query" /\ pool.clients[c].querying
    /\ \E ok \in BOOLEAN :
          pool' = [pool EXCEPT !.idle = @ + 1,
                               !.clients[c] = IF ok THEN Advance([@ EXCEPT !.querying = FALSE])
                                              ELSE Dropped(@)]
    /\ StoreUntouched

\* let mut tx = pool.begin().await?: waits for an idle connection, then
\* sends BEGIN; when that fails the connection goes straight back.
PoolBegin(c) ==
    /\ InFlight(c) /\ Step(c) = "begin"
    /\ pool.idle > 0
    /\ \E ok \in BOOLEAN :
          IF ok THEN pool' = [pool EXCEPT !.idle = @ - 1, !.clients[c] = Advance([@ EXCEPT !.tx = TRUE])]
          ELSE pool' = [pool EXCEPT !.clients[c] = Dropped(@)]
    /\ StoreUntouched

\* The two checks of RlsTransaction::begin; an Err drops tx.
Validate(c) ==
    /\ InFlight(c) /\ Step(c) = "validate"
    /\ IF parse_str(pool.clients[c].id) /\ pool.clients[c].role \in allowed_roles
       THEN pool' = [pool EXCEPT !.clients[c] = Advance(@)]
       ELSE pool' = [pool EXCEPT !.idle = @ + 1, !.clients[c] = Dropped(@)]
    /\ StoreUntouched

\* SET LOCAL role, request.jwt.claim.sub, request.jwt.claim.role; then Ok(Self)
SetLocal(c) ==
    /\ InFlight(c) /\ Step(c) = "set_local"
    /\ \E ok \in BOOLEAN :
          IF ok THEN pool' = [pool EXCEPT !.clients[c] = Advance([@ EXCEPT !.began = TRUE])]
          ELSE pool' = [pool EXCEPT !.idle = @ + 1, !.clients[c] = Dropped(@)]
    /\ StoreUntouched

\* A statement on the transaction; its error leaves the handler through ?.
Statement(c) ==
    /\ InFlight(c) /\ Step(c) = "statement"
    /\ \E ok \in BOOLEAN :
          IF ok THEN pool' = [pool EXCEPT !.clients[c] = Advance(@)]
          ELSE pool' = [pool EXCEPT !.idle = @ + 1, !.clients[c] = Dropped(@)]
    /\ StoreUntouched

\* tx.commit().await: the transaction ends either way.
CommitTransaction(c) ==
    /\ InFlight(c) /\ Step(c) = "commit"
    /\ \E ok \in BOOLEAN :
          pool' = [pool EXCEPT !.idle = @ + 1,
                               !.clients[c] = IF ok THEN Advance([@ EXCEPT !.tx = FALSE])
                                              ELSE Dropped(@)]
    /\ StoreUntouched

PoolNext ==
    \E c \in Clients :
        \/ AcquireConnection(c)
        \/ ReleaseConnection(c)
        \/ PoolBegin(c)
        \/ Validate(c)
        \/ SetLocal(c)
        \/ Statement(c)
        \/ CommitTransaction(c)

PoolSpec == PoolInit /\ [][PoolNext]_vars

\* The runtime polls every request that can make a step.
PoolLiveSpec ==
    /\ PoolSpec
    /\ \A c \in Clients :
          /\ WF_vars(AcquireConnection(c)) /\ WF_vars(ReleaseConnection(c))
          /\ WF_vars(PoolBegin(c)) /\ WF_vars(Validate(c)) /\ WF_vars(SetLocal(c))
          /\ WF_vars(Statement(c)) /\ WF_vars(CommitTransaction(c))

\* The request has left RlsTransaction::begin with an Err.
BeginFailed(c) ==
    /\ pool.clients[c].outcome = "error"
    /\ Step(c) \in {"begin", "validate", "set_local"}

\* C32: a request whose identity is not a well-formed UUID, or whose role is
\* not one of authenticated, anon, service_role, never gets a scoped
\* transaction: it is never found past the checks, and once begin has
\* returned its error it has no transaction open and holds no connection.
\* A request that did get its transaction passed both checks.
C32_BeginValidates ==
    \A c \in Clients :
        LET r == pool.clients[c]
            wellFormed ==
                /\ r.id.hex
                /\ \/ r.id.form = "hyphenated" /\ r.id.groups = <<8, 4, 4, 4, 12>>
                   \/ r.id.form = "simple" /\ r.id.groups = <<32>>
            allowed == r.role \in {"authenticated", "anon", "service_role"}
        IN  /\ r.began => wellFormed /\ allowed
            /\ ~ (wellFormed /\ allowed) =>
                  /\ Step(c) \notin {"set_local", "statement", "commit"}
                  /\ ~ r.began
                  /\ Step(c) = "validate" /\ ~ InFlight(c) =>
                        r.outcome = "error" /\ ~ r.tx /\ Held(c) = 0
            /\ BeginFailed(c) => ~ r.tx /\ Held(c) = 0

\* Both kinds of refusal have happened and every connection is back.
C32_Witness ==
    /\ pool # <<>>
    /\ \E c, d \in Clients :
          /\ BeginFailed(c) /\ Step(c) = "validate" /\ ~ pool.clients[c].id.hex
          /\ BeginFailed(d) /\ Step(d) = "validate" /\ pool.clients[d].id.hex
          /\ pool.clients[d].role = "postgres"
    /\ pool.idle = PoolSize

\* The request is at a step that needs a connection from the pool.
Waiting(c) ==
    /\ InFlight(c)
    /\ \/ Step(c) = "query" /\ ~ pool.clients[c].querying
       \/ Step(c) = "begin"

\* Some request that has not finished can make a step.
SomeRequestCanStep ==
    \E c \in Clients : InFlight(c) /\ (Waiting(c) => pool.idle > 0)

NoSecondConnection ==
    \A c \in Clients :
        /\ Waiting(c) => ~ pool.clients[c].tx /\ Held(c) = 0
        /\ Held(c) <= 1

\* C37: a request that waits for a pool connection holds neither an open
\* transaction nor another connection; while any request is unfinished some
\* request can make a step (no circular wait); and eventually every request
\* has completed.
C37_NoWaitWhileHolding ==
    /\ [](NoSecondConnection /\ ((\E c \in Clients : InFlight(c)) => SomeRequestCanStep))
    /\ <>(\A c \in Clients : ~ InFlight(c))

\* One request holds its transaction, and with it the last connection, while
\* another waits for a connection.
C37_Witness ==
    /\ pool # <<>>
    /\ pool.idle = 0
    /\ \E c, d \in Clients :
          /\ pool.clients[c].tx
          /\ Waiting(d) /\ pool.clients[d].step > 1

\* ------------------------------------------------------------------------
\* Concurrent accepts (update_point_change_status), statement by statement.
\* Each statement of a transaction sees what is committed when it runs
\* (READ COMMITTED, the store's default; the handler sets no other level);
\* an UPDATE locks its row until the transaction ends; the writes of a
\* transaction become visible to others at its commit.
\* ------------------------------------------------------------------------
MaxResolvers == 2
Resolvers == 1..MaxResolvers

\* The store the race starts from: alice's route of three points with three
\* control points, and two pending changes of bob at point indices 0 and 2.
RouteCreated ==
    Handle([routes |-> <<>>, route_versions |-> <<>>, route_point_changes |-> <<>>,
            route_editing_sessions |-> {}, route_proposals |-> <<>>, sessions_created |-> 0],
           Request("create_route", "alice", 0, "none", Geometry("MultiLineString", <<Line3>>),
                   JArray(<<JLngLat(0, 0), JCoords(<<1, 0>>), JLngLat(1, 1)>>),
                   <<0, 0>>, JNull, "none"),
           1).db
EditorJoined ==
    Handle(RouteCreated,
           Request("join_editing_session", "bob", 1, "none", NoGeometry, JNullArray,
                   <<0, 0>>, JNull, "none"),
           2).db
FirstChangePending ==
    Handle(EditorJoined,
           Request("create_point_change", "bob", 1, "none", NoGeometry, JNullArray,
                   <<0, 0>>, JArr(<<2, 2>>), "none"),
           3).db
TwoChangesPending ==
    Handle(FirstChangePending,
           Request("create_point_change", "bob", 1, "none", NoGeometry, JNullArray,
                   <<0, 2>>, JArr(<<3, 3>>), "none"),
           4).db
PendingChanges == DOMAIN TwoChangesPending.route_point_changes

\* A resolver: the change it accepts, the statement it is at, NOW() of its
\* transaction, the handler's local variables (change, geometry,
\* control_points), which of its writes are waiting for the commit, and the
\* status it answered (0 while it runs).  race.lock holds the resolver whose
\* transaction has updated the route's row and not ended.
Resolver(change_id) ==
    [change_id |-> change_id, user |-> "alice", at |-> "begin", started |-> 0,
     change |-> PointChangeRow(0, NoUser, "", 0, 0, JNull, JNull, 0),
     geometry |-> NoGeometry, control_points |-> JNullArray,
     inserted |-> FALSE, saved |-> FALSE, code |-> 0]

RaceInit ==
    /\ routes = TwoChangesPending.routes
    /\ route_versions = TwoChangesPending.route_versions
    /\ route_point_changes = TwoChangesPending.route_point_changes
    /\ route_editing_sessions = TwoChangesPending.route_editing_sessions
    /\ route_proposals = TwoChangesPending.route_proposals
    /\ sessions_created = TwoChangesPending.sessions_created
    /\ now = 4
    /\ pipeline = Idle
    /\ pool = <<>>
    /\ race \in {[lock |-> {}, resolvers |-> rs] :
                    rs \in [Resolvers -> {Resolver(id) : id \in PendingChanges}]}

At(r, statement) == race.resolvers[r].at = statement

\* The handler returns code; the transaction is dropped and its locks go.
Leave(r, code) ==
    race' = [race EXCEPT !.lock = @ \ {r},
                         !.resolvers[r].at = "done",
                         !.resolvers[r].code = code]
Committed == <<routes, route_versions, route_point_changes>>
Others == <<route_editing_sessions, route_proposals, sessions_created, pipeline, pool>>

\* RlsTransaction::begin
RaceBegin(r) ==
    /\ At(r, "begin")
    /\ now' = now + 1
    /\ race' = [race EXCEPT !.resolvers[r].at = "fetch_change", !.resolvers[r].started = now + 1]
    /\ UNCHANGED <<Committed, Others>>

\* SELECT * FROM route_point_changes WHERE id = $1
RaceFetchChange(r) ==
    /\ At(r, "fetch_change")
    /\ \/ IF UsersReadPointChanges(Db, race.resolvers[r].user, race.resolvers[r].change_id)
          THEN race' = [race EXCEPT !.resolvers[r].at = "fetch_version",
                                    !.resolvers[r].change =
                                        route_point_changes[race.resolvers[r].change_id]]
          ELSE Leave(r, NOT_FOUND)
       \/ Leave(r, INTERNAL_SERVER_ERROR)
    /\ UNCHANGED <<Committed, Others, now>>

\* SELECT geometry FROM route_versions ... ORDER BY created_at DESC LIMIT 1,
\* then get_mut at the locator and *coords = change.new_position.clone()
RaceFetchVersion(r) ==
    /\ At(r, "fetch_version")
    /\ LET change == race.resolvers[r].change
           geometry == LatestVersion(Db, change.route_id).geometry
       IN  \/ IF HasCoordinate(geometry, change.feature_index, change.point_index)
              THEN race' = [race EXCEPT !.resolvers[r].at = "insert_version",
                                        !.resolvers[r].geometry =
                                            SetCoordinate(geometry, change.feature_index,
                                                          change.point_index, change.new_position)]
              ELSE Leave(r, BAD_REQUEST)
           \/ Leave(r, INTERNAL_SERVER_ERROR)
    /\ UNCHANGED <<Committed, Others, now>>

\* INSERT INTO route_versions (route_id, geometry, created_by)
RaceInsertVersion(r) ==
    /\ At(r, "insert_version")
    /\ \/ IF OwnerCreateRouteVersions(Db, race.resolvers[r].user, race.resolvers[r].change.route_id)
          THEN race' = [race EXCEPT !.resolvers[r].at = "touch_route",
                                    !.resolvers[r].inserted = TRUE]
          ELSE Leave(r, PermissionDenied)
       \/ Leave(r, INTERNAL_SERVER_ERROR)
    /\ UNCHANGED <<Committed, Others, now>>

\* UPDATE routes SET updated_at = NOW() WHERE id = $1: waits for the row
\* while another transaction that updated it has not ended.
RaceTouchRoute(r) ==
    /\ At(r, "touch_route")
    /\ race.lock = {}
    /\ \/ race' = [race EXCEPT !.lock = {r}, !.resolvers[r].at = "fetch_control_points"]
       \/ Leave(r, INTERNAL_SERVER_ERROR)
    /\ UNCHANGED <<Committed, Others, now>>

\* SELECT control_points FROM routes WHERE id = $1
RaceFetchControlPoints(r) ==
    /\ At(r, "fetch_control_points")
    /\ \/ race' = [race EXCEPT !.resolvers[r].at = "update_control_points",
                               !.resolvers[r].control_points =
                                   routes[race.resolvers[r].change.route_id].control_points]
       \/ Leave(r, INTERNAL_SERVER_ERROR)
    /\ UNCHANGED <<Committed, Others, now>>

\* UPDATE routes SET control_points = $1 WHERE id = $2, when they are an array
RaceUpdateControlPoints(r) ==
    /\ At(r, "update_control_points")
    /\ LET change == race.resolvers[r].change
           control_points == race.resolvers[r].control_points
       IN  \/ IF control_points.kind = "array"
              THEN race' = [race EXCEPT !.resolvers[r].at = "update_status",
                                        !.resolvers[r].saved = TRUE,
                                        !.resolvers[r].control_points =
                                            UpdateControlPoint(control_points, change.point_index,
                                                               change.new_position)]
              ELSE race' = [race EXCEPT !.resolvers[r].at = "update_status"]
           \/ Leave(r, INTERNAL_SERVER_ERROR)
    /\ UNCHANGED <<Committed, Others, now>>

\* UPDATE route_point_changes SET status = $1, resolved_at = NOW(),
\* resolved_by = $2 WHERE id = $3 RETURNING *
RaceUpdateStatus(r) ==
    /\ At(r, "update_status")
    /\ \/ IF OwnersUpdatePointChanges(Db, race.resolvers[r].user, race.resolvers[r].change_id)
          THEN race' = [race EXCEPT !.resolvers[r].at = "commit"]
          ELSE Leave(r, FORBIDDEN)
       \/ Leave(r, INTERNAL_SERVER_ERROR)
    /\ UNCHANGED <<Committed, Others, now>>

\* tx.commit(): the writes of the transaction reach the tables together.
RaceCommit(r) ==
    /\ At(r, "commit")
    /\ LET me == race.resolvers[r]
       IN  \/ /\ route_versions' =
                    Append(route_versions,
                           [route_id |-> me.change.route_id, geometry |-> me.geometry,
                            created_at |-> me.started, created_by |-> me.user])
              /\ routes' =
                    [routes EXCEPT ![me.change.route_id].updated_at = me.started,
                                   ![me.change.route_id].control_points =
                                       IF me.saved THEN me.control_points ELSE @]
              /\ route_point_changes' =
                    [route_point_changes EXCEPT ![me.change_id] =
                        [@ EXCEPT !.status = "accepted", !.resolved_at = me.started,
                                  !.resolved_by = me.user]]
              /\ Leave(r, OK)
           \/ Leave(r, INTERNAL_SERVER_ERROR) /\ UNCHANGED Committed
    /\ UNCHANGED <<Others, now>>

RaceNext ==
    \E r \in Resolvers :
        \/ RaceBegin(r)
        \/ RaceFetchChange(r)
        \/ RaceFetchVersion(r)
        \/ RaceInsertVersion(r)
        \/ RaceTouchRoute(r)
        \/ RaceFetchControlPoints(r)
        \/ RaceUpdateControlPoints(r)
        \/ RaceUpdateStatus(r)
        \/ RaceCommit(r)
RaceSpec == RaceInit /\ [][RaceNext]_vars

\* The resolvers that answered 200.
Accepted == {r \in Resolvers : race.resolvers[r].code = OK}

\* C38: when resolve(accepted) requests for the same pending change run
\* concurrently, at most one of them commits and the change accounts for at
\* most one appended version.
C38_AppliedAtMostOnce ==
    /\ \A id \in PendingChanges :
          Cardinality({r \in Accepted : race.resolvers[r].change_id = id}) <= 1
    /\ Len(route_versions) - Len(TwoChangesPending.route_versions)
          <= Cardinality({race.resolvers[r].change_id : r \in Accepted})

\* C39: when accepts of two different pending changes of one route have
\* interleaved and both committed, the versions that existed are as they
\* were, each appended version is a version of the route with exactly one
\* coordinate replaced, and the route's control points agree with the latest
\* version's geometry at both changed locators.
C39_RacingAcceptsStayConsistent ==
    (/\ \A r \in Resolvers : At(r, "done")
     /\ \E r, s \in Accepted : race.resolvers[r].change_id # race.resolvers[s].change_id)
       => /\ SubSeq(route_versions, 1, Len(TwoChangesPending.route_versions))
                = TwoChangesPending.route_versions
          /\ \A i \in DOMAIN route_versions :
                i > Len(TwoChangesPending.route_versions)
                   => \E j \in DOMAIN route_versions, c \in PendingChanges :
                         /\ j # i
                         /\ route_versions[j].route_id = route_versions[i].route_id
                         /\ route_versions[i].geometry # route_versions[j].geometry
                         /\ SameBut(route_versions[j].geometry, route_versions[i].geometry,
                                    route_point_changes[c].feature_index,
                                    route_point_changes[c].point_index)
          /\ \A c \in PendingChanges :
                LET change == route_point_changes[c]
                    geometry == LatestVersion(Db, change.route_id).geometry
                IN  /\ HasPositionAt(routes[change.route_id].control_points, change.point_index)
                    /\ PositionAt(routes[change.route_id].control_points, change.point_index)
                          = AtIndex(AtIndex(geometry.coordinates, change.feature_index),
                                    change.point_index)

====
